---- MODULE Spec2Model ----
(***************************************************************************)
(* State-machine model of BipedalLocomotion::Planners::                    *)
(* UnicycleTrajectoryPlanner (src/src/Planners/src/                        *)
(* UnicycleTrajectoryPlanner.cpp).                                         *)
(*                                                                         *)
(* Times are integers in milliseconds (the code keeps nanoseconds and      *)
(* hands seconds to the generator; only ratios and sums are used here).    *)
(* A trajectory is represented by the plan it was pulled from and by its   *)
(* number of samples.  The footstep/DCM generator and the kinematic model  *)
(* are external collaborators: their answers (accept/reject) are chosen    *)
(* nondeterministically, their stored data is what the planner handed them.*)
(***************************************************************************)
EXTENDS Integers, Sequences, FiniteSets, TLC

----------------------------------------------------------------------------
(* Bounds of the model *)

\* at most MaxAbsent required options are absent from one configuration
MaxAbsent == 1
\* initialize() is called at most MaxInitialize times in one run
MaxInitialize == 2
MaxSamples == 2

\* the start times of the cycles the driver supplies an Input for
CycleTimes == {0, 1}
\* the values a configuration gives to "dt" and to "plannerHorizon"
DtValues == {1}
HorizonValues == {4}
\* the values a configuration gives to "slowWhenBackwardFactor" and to
\* "slowWhenSidewaysFactor", in tenths
BackwardFactors == {3}
SidewaysFactors == {1}

----------------------------------------------------------------------------
(* Program constants *)

\* fallback of "dt": 0.002 s
DefaultDt == 2
\* fallback of "plannerHorizon": 20.0 s
DefaultPlannerHorizon == 20000
\* fallback of "slowWhenBackwardFactor": 0.4, in tenths
DefaultSlowWhenBackwardFactor == 4
\* fallback of "slowWhenSidewaysFactor": 0.2, in tenths
DefaultSlowWhenSidewaysFactor == 2
\* fallback of "controlType"
DefaultControlType == "direct"
\* iDynTree::FRAME_INVALID_INDEX
FRAME_INVALID_INDEX == -1

\* enum class FSM
FSM == {"NotInitialized", "Initialized", "Running"}

\* the options read with loadParam, in the order initialize() reads them
RequiredParams ==
    << "referencePosition", "saturationFactors", "mergePointRatios",
       "leftZMPDelta", "rightZMPDelta",
       "leftContactFrameName", "rightContactFrameName" >>

\* position of a required option in the chain of `ok = ok && loadParam(...)`
ParamPos(name) == CHOOSE k \in 1..Len(RequiredParams) : RequiredParams[k] = name

\* frame names a configuration gives, and the frames a model may hold
LeftFrame == "l_sole"
RightFrame == "r_sole"
FrameNames == {LeftFrame, RightFrame}

\* what an uninitialised local `double dt` / `double plannerHorizon` can hold
\* once converted: any value; a zero and a positive one are kept
Indeterminate == {0, 3}

----------------------------------------------------------------------------
(* Data *)

\* a plan of the generator: the arguments of the generate/reGenerate call
\* that produced it ("none": nothing was generated yet)
NoPlan == [kind |-> "none", initTime |-> 0, endTime |-> 0, dt |-> 0,
           correctLeft |-> FALSE, stance |-> 0]

\* number of samples of a plan: one every dt over [initTime, endTime)
Samples(plan) ==
    IF plan.kind = "none" \/ plan.dt <= 0 \/ plan.endTime <= plan.initTime
    THEN 0
    ELSE (plan.endTime - plan.initTime) \div plan.dt

\* a trajectory pulled from a plan
Traj(plan) == [plan |-> plan, len |-> Samples(plan)]

\* the UnicycleTrajectoryPlannerInput the driver supplies for the cycle that
\* starts at time t: every field differs from one cycle to the next
InputAt(t) ==
    [ initTime |-> t, isLeftLastSwinging |-> (t % 2 = 1), plannerInput |-> t,
      measuredTransform |-> t, dcmInitialState |-> t, comInitialState |-> t ]

\* UnicycleTrajectoryPlannerInput
Inputs == { InputAt(t) : t \in CycleTimes }

\* the member `input` after construction
DefaultInput ==
    [ initTime |-> 0, isLeftLastSwinging |-> FALSE, plannerInput |-> 0,
      measuredTransform |-> 0, dcmInitialState |-> 0, comInitialState |-> 0 ]

\* the member `output` after construction: every sequence is empty
DefaultOutput ==
    [ contactStatus |-> Traj(NoPlan),
      steps         |-> [leftSteps |-> NoPlan, rightSteps |-> NoPlan],
      dcmTrajectory |-> Traj(NoPlan),
      comTrajectory |-> [plan |-> NoPlan, len |-> 0, comInitialState |-> 0],
      mergePoints   |-> Traj(NoPlan) ]

\* the fields of Output, in the order advance() writes them
OutputFields ==
    << "contactStatus", "steps", "dcmTrajectory", "comTrajectory", "mergePoints" >>

\* the member `parameters` after construction
DefaultParameters ==
    [ dt |-> 0, plannerHorizon |-> 0,
      leftContactFrameName |-> "", rightContactFrameName |-> "",
      leftContactFrameIndex |-> FRAME_INVALID_INDEX,
      rightContactFrameIndex |-> FRAME_INVALID_INDEX ]

\* the member `generator` after construction
DefaultGenerator ==
    [ desiredTrajectory |-> << >>,
      directControl |-> 0,
      dcmInitialState |-> 0,
      slowWhenBackwardFactor |-> 0,
      slowWhenSidewaysFactor |-> 0,
      unicycleController |-> "unset",
      plan |-> NoPlan,
      leftFootPrint |-> NoPlan,
      rightFootPrint |-> NoPlan ]

\* iDynTree::Model values handed to setRobotContactFrames
Models == [ loadable : BOOLEAN, frames : SUBSET FrameNames ]

\* Model::getFrameIndex
getFrameIndex(model, name) ==
    IF name \in model.frames
    THEN (IF name = LeftFrame THEN 1 ELSE 2)
    ELSE FRAME_INVALID_INDEX

\* the models that hold both contact frames
NominalModels == { model \in Models : model.loadable /\ model.frames = FrameNames }

\* an empty Contacts::ContactList
NoContacts ==
    [ filled |-> FALSE, initTime |-> 0, dt |-> 0, timeline |-> NoPlan,
      steps |-> NoPlan, frame |-> FRAME_INVALID_INDEX ]

\* UnicycleUtilities::getContactList: the contacts of one foot, built from
\* its contact timeline and its footsteps; it fails when the index of the
\* contact frame was never resolved
getContactList(t0, dt, inContact, steps, frameIndex) ==
    IF frameIndex = FRAME_INVALID_INDEX
    THEN [ok |-> FALSE, list |-> NoContacts]
    ELSE [ok |-> TRUE,
          list |-> [ filled |-> TRUE, initTime |-> t0, dt |-> dt,
                     timeline |-> inContact.plan, steps |-> steps,
                     frame |-> frameIndex ]]

\* an empty Contacts::ContactPhaseList
EmptyPhaseList == [left_foot |-> NoContacts, right_foot |-> NoContacts]

\* the locals of getContactPhaseList() when it is entered
NoPhases ==
    [ leftContactList |-> NoContacts, rightContactList |-> NoContacts,
      contactPhaseList |-> EmptyPhaseList ]

\* the locals of the Running branch of advance() before it is entered
NoReplan == [pc |-> "idle"]

\* no sequence pulled from the generator yet
NoAccess == [pc |-> "idle"]

\* the MasImuTest module before it is constructed
NoImuTest == [pc |-> "idle"]

\* the FTIMULoggerDevice before it is constructed
NoLogger == [pc |-> "idle"]

\* the CoM system before any integration: no initial state, no DCM
\* trajectory, nothing integrated
NoLipm ==
    [ pc |-> "idle", comInitialState |-> << >>, dcmTrajectory |-> << >>,
      heightProfile |-> << >>, i |-> 0,
      state |-> << >>, states |-> << >>,
      position |-> << >>, velocity |-> << >>, acceleration |-> << >> ]

Absent == "absent"

\* an optional option: absent from the handler, or given with a value of S
Optional(S) ==
    {o \in [given : BOOLEAN, value : S] : ~o.given => o.value = CHOOSE v \in S : TRUE}

\* `ok` after the chain of loads has read the required option `name`
OkUpTo(cfg, name) ==
    \A k \in 1..ParamPos(name) : RequiredParams[k] \notin cfg.absent

\* the contents of a parameter handler.  What initialize() never reads, or
\* reads without using it, because `ok` is already false (ok = ok && ...) is
\* fixed: the "dt"/"plannerHorizon" options when referencePosition is absent;
\* the control type, the two factors and the generator's answers when a
\* required option is absent or the generator rejects a setting.
Handlers ==
    { cfg \in
        [ absent : {S \in SUBSET {RequiredParams[k] : k \in 1..Len(RequiredParams)} :
                        Cardinality(S) <= MaxAbsent},
          dt : Optional(DtValues),
          plannerHorizon : Optional(HorizonValues),
          slowWhenBackwardFactor : Optional(BackwardFactors),
          slowWhenSidewaysFactor : Optional(SidewaysFactors),
          controlType : {Absent, "direct", "personFollowing", "other"},
          settersAccept : BOOLEAN ] :
        /\ ~OkUpTo(cfg, "referencePosition")
              => ~cfg.dt.given /\ ~cfg.plannerHorizon.given
        /\ cfg.absent # {} => cfg.settersAccept
        /\ (cfg.absent # {} \/ ~cfg.settersAccept)
              => /\ cfg.controlType = Absent
                 /\ ~cfg.slowWhenBackwardFactor.given
                 /\ ~cfg.slowWhenSidewaysFactor.given }

\* the handlers the driver of the whole life cycle hands to initialize():
\* they give both "dt" and "plannerHorizon" or neither, leave the two factors
\* to their fallbacks, and leave out the control type or give an unknown one
Configs ==
    { cfg \in Handlers :
        /\ cfg.dt.given = cfg.plannerHorizon.given
        /\ ~cfg.slowWhenBackwardFactor.given
        /\ ~cfg.slowWhenSidewaysFactor.given
        /\ cfg.controlType \in {Absent, "other"} }

\* the configuration that holds the required options only (every optional
\* one takes its fallback) and that the generator accepts
NominalConfigs ==
    { cfg \in Configs : /\ cfg.absent = {}
                        /\ cfg.settersAccept
                        /\ cfg.controlType = Absent
                        /\ ~cfg.dt.given
                        /\ ~cfg.plannerHorizon.given }

\* no handler: the call takes none, or the weak pointer it was given has
\* expired
NoHandler ==
    [ absent |-> {}, dt |-> [given |-> FALSE, value |-> 0],
      plannerHorizon |-> [given |-> FALSE, value |-> 0],
      slowWhenBackwardFactor |-> [given |-> FALSE, value |-> 0],
      slowWhenSidewaysFactor |-> [given |-> FALSE, value |-> 0],
      controlType |-> "none", settersAccept |-> FALSE ]

----------------------------------------------------------------------------
VARIABLES
    state,        \* Impl::state
    output,       \* Impl::output
    input,        \* Impl::input
    parameters,   \* Impl::parameters
    generator,    \* Impl::generator
    initTime,     \* Impl::initTime
    mutex,        \* Impl::mutex: "free" or the thread holding it
    advPc,        \* position of the thread inside advance()
    rdPc,         \* position of the reader thread
    rdView,       \* what the reader has read through the reference getOutput() gave
    rdSeen,       \* the Output fields the reader has read so far
    op,           \* the call that has just returned ("none": its caller went on)
    ret,          \* its return value
    trace,        \* the generator calls it made, in order
    preState,     \* Impl::state when it was called
    nInitialize,  \* number of initialize() calls so far
    phases,       \* the locals of getContactPhaseList(), and the list it returns
    lipm,         \* the CoM system and the trajectories integrated with it
    handler,      \* the parameter handler the call was given
    replan,       \* the locals of the Running branch of advance()
    access,       \* the sequences advance() indexes, and the reads it makes
    imuTest,      \* the MasImuTest module and the MasImuData it drives
    logger        \* the FTIMULoggerDevice and its periodic thread

vars == << state, output, input, parameters, generator, initTime, mutex,
           advPc, rdPc, rdView, rdSeen, op, ret, trace, preState,
           nInitialize, phases, lipm, handler, replan,
           access, imuTest, logger >>

planner == << state, output, input, parameters, generator, initTime >>
threads == << mutex, advPc, rdPc, rdView, rdSeen >>
devices == << access, imuTest, logger >>
locals == << phases, lipm, handler, replan, devices >>

AllFields == {OutputFields[k] : k \in 1..Len(OutputFields)}

Init ==
    /\ state = "NotInitialized"
    /\ output = DefaultOutput
    /\ input = DefaultInput
    /\ parameters = DefaultParameters
    /\ generator = DefaultGenerator
    /\ initTime = 0
    /\ mutex = "free"
    /\ advPc = "idle"
    /\ rdPc = "idle"
    /\ rdView = DefaultOutput
    /\ rdSeen = {}
    /\ op = "none"
    /\ ret = TRUE
    /\ trace = << >>
    /\ preState = "NotInitialized"
    /\ nInitialize = 0
    /\ phases = NoPhases
    /\ lipm = NoLipm
    /\ handler = NoHandler
    /\ replan = NoReplan
    /\ access = NoAccess
    /\ imuTest = NoImuTest
    /\ logger = NoLogger

\* the driver thread is between two calls
Idle == advPc = "idle" /\ op = "none"

\* bookkeeping of a call
CalledWith(name, r, t, h) ==
    /\ op' = name
    /\ ret' = r
    /\ trace' = t
    /\ preState' = state
    /\ nInitialize' = IF name = "initialize" THEN nInitialize + 1 ELSE nInitialize
    /\ handler' = h
    /\ UNCHANGED << phases, lipm, replan, devices >>

Called(name, r, t) == CalledWith(name, r, t, NoHandler)

\* the caller has taken the value the call returned and goes on
Return ==
    /\ advPc = "idle"
    /\ op # "none"
    /\ op' = "none"
    /\ ret' = TRUE
    /\ trace' = << >>
    /\ preState' = state
    /\ phases' = IF op = "getContactPhaseList" THEN NoPhases ELSE phases
    /\ handler' = NoHandler
    /\ UNCHANGED << planner, threads, nInitialize, lipm, replan, devices >>

----------------------------------------------------------------------------
(* setRobotContactFrames *)

\* mutant: the state is not reset when the right frame is missing
setRobotContactFrames_KeepsState(model) ==
    /\ Idle
    /\ IF state = "NotInitialized"
       THEN /\ Called("setRobotContactFrames", FALSE, << >>)
            /\ UNCHANGED << planner, threads >>
       ELSE IF ~model.loadable
       THEN /\ state' = "NotInitialized"
            /\ Called("setRobotContactFrames", FALSE, << >>)
            /\ UNCHANGED << output, input, parameters, generator, initTime, threads >>
       ELSE LET left == getFrameIndex(model, parameters.leftContactFrameName)
                right == getFrameIndex(model, parameters.rightContactFrameName)
            IN  IF left = FRAME_INVALID_INDEX
                THEN /\ parameters' = [parameters EXCEPT !.leftContactFrameIndex = left]
                     /\ state' = "NotInitialized"
                     /\ Called("setRobotContactFrames", FALSE, << >>)
                     /\ UNCHANGED << output, input, generator, initTime, threads >>
                ELSE IF right = FRAME_INVALID_INDEX
                THEN /\ parameters' = [parameters EXCEPT !.leftContactFrameIndex = left,
                                                         !.rightContactFrameIndex = right]
                     /\ Called("setRobotContactFrames", FALSE, << >>)
                     /\ UNCHANGED << state, output, input, generator, initTime, threads >>
                ELSE /\ parameters' = [parameters EXCEPT !.leftContactFrameIndex = left,
                                                         !.rightContactFrameIndex = right]
                     /\ Called("setRobotContactFrames", TRUE, << >>)
                     /\ UNCHANGED << state, output, input, generator, initTime, threads >>

setRobotContactFrames(model) ==
    /\ Idle
    /\ IF state = "NotInitialized"
       THEN /\ Called("setRobotContactFrames", FALSE, << >>)
            /\ UNCHANGED << planner, threads >>
       ELSE IF ~model.loadable
       THEN /\ state' = "NotInitialized"
            /\ Called("setRobotContactFrames", FALSE, << >>)
            /\ UNCHANGED << output, input, parameters, generator, initTime, threads >>
       ELSE LET left == getFrameIndex(model, parameters.leftContactFrameName)
                right == getFrameIndex(model, parameters.rightContactFrameName)
            IN  IF left = FRAME_INVALID_INDEX
                THEN /\ parameters' = [parameters EXCEPT !.leftContactFrameIndex = left]
                     /\ state' = "NotInitialized"
                     /\ Called("setRobotContactFrames", FALSE, << >>)
                     /\ UNCHANGED << output, input, generator, initTime, threads >>
                ELSE IF right = FRAME_INVALID_INDEX
                THEN /\ parameters' = [parameters EXCEPT !.leftContactFrameIndex = left,
                                                         !.rightContactFrameIndex = right]
                     /\ state' = "NotInitialized"
                     /\ Called("setRobotContactFrames", FALSE, << >>)
                     /\ UNCHANGED << output, input, generator, initTime, threads >>
                ELSE /\ parameters' = [parameters EXCEPT !.leftContactFrameIndex = left,
                                                         !.rightContactFrameIndex = right]
                     /\ Called("setRobotContactFrames", TRUE, << >>)
                     /\ UNCHANGED << state, output, input, generator, initTime, threads >>

----------------------------------------------------------------------------
(* isOutputValid, setInput *)

\* mutant: the output counts as valid as soon as the planner is initialized
isOutputValid_Initialized == state # "NotInitialized"

isOutputValid == state = "Running"

isOutputValidCall ==
    /\ Idle
    /\ Called("isOutputValid", isOutputValid, << >>)
    /\ UNCHANGED << planner, threads >>

\* mutant: the state check is missing, the input is always stored
setInput_Unchecked(in) ==
    /\ Idle
    /\ input' = in
    /\ Called("setInput", state # "NotInitialized", << >>)
    /\ UNCHANGED << state, output, parameters, generator, initTime, threads >>

\* mutant: only the start time of the given Input is stored
setInput_InitTimeOnly(in) ==
    /\ Idle
    /\ IF state = "NotInitialized"
       THEN /\ Called("setInput", FALSE, << >>)
            /\ UNCHANGED << planner, threads >>
       ELSE /\ input' = [input EXCEPT !.initTime = in.initTime]
            /\ Called("setInput", TRUE, << >>)
            /\ UNCHANGED << state, output, parameters, generator, initTime, threads >>

setInput(in) ==
    /\ Idle
    /\ IF state = "NotInitialized"
       THEN /\ Called("setInput", FALSE, << >>)
            /\ UNCHANGED << planner, threads >>
       ELSE /\ input' = in
            /\ Called("setInput", TRUE, << >>)
            /\ UNCHANGED << state, output, parameters, generator, initTime, threads >>

----------------------------------------------------------------------------
(* The external generator, as the planner drives it *)

\* where the cold start can fail, and where a re-plan can fail
ColdAnswers == {"ok", "initialPoint", "finalPoint", "generate"}
ReplanAnswers == {"ok", "waypoint", "dcm", "reGenerate"}

\* the generator plans only over a non-empty horizon sampled at a positive period
GeneratorAccepts(t0, dt, t1) == dt > 0 /\ t1 > t0

\* mutant: the pending points are kept
clearPersonFollowingDesiredTrajectory_Keeps(g) == g

\* lines 554 and 696: the pending points of the desired trajectory are dropped
clearPersonFollowingDesiredTrajectory(g) == [g EXCEPT !.desiredTrajectory = << >>]

\* generateFirstTrajectory(): the generator after the call, whether it
\* succeeded, and the generator calls made
generateFirstTrajectory(g, p, ans) ==
    LET endTime == 0 + p.plannerHorizon
        cleared == [clearPersonFollowingDesiredTrajectory(g) EXCEPT
                             !.directControl = 0,
                             !.leftFootPrint = NoPlan,
                             !.rightFootPrint = NoPlan]
        calls0 == << "clearPersonFollowingDesiredTrajectory", "setDesiredDirectControl",
                     "clearSteps", "clearSteps" >>
        first == [cleared EXCEPT !.desiredTrajectory =
                      Append(@, [time |-> 0, point |-> 0])]
        both == [first EXCEPT !.desiredTrajectory =
                     Append(first.desiredTrajectory, [time |-> endTime, point |-> 0])]
        plan == [kind |-> "cold", initTime |-> 0, endTime |-> endTime, dt |-> p.dt,
                 correctLeft |-> FALSE, stance |-> 0]
        done == [both EXCEPT !.plan = plan, !.leftFootPrint = plan, !.rightFootPrint = plan]
        add == "addPersonFollowingDesiredTrajectoryPoint"
    IN  IF ans = "initialPoint"
        THEN [ok |-> FALSE, generator |-> cleared, trace |-> Append(calls0, add)]
        ELSE IF ans = "finalPoint"
        THEN [ok |-> FALSE, generator |-> first, trace |-> calls0 \o << add, add >>]
        ELSE IF ans = "generate" \/ ~GeneratorAccepts(0, p.dt, endTime)
        THEN [ok |-> FALSE, generator |-> both,
              trace |-> calls0 \o << add, add, "generate" >>]
        ELSE [ok |-> TRUE, generator |-> done,
              trace |-> calls0 \o << add, add, "generate" >>]

\* mutant: the foot that swung last is taken as the stance foot
CorrectLeft_Swinging(in) == in.isLeftLastSwinging

\* line 484: bool correctLeft{!input.isLeftLastSwinging}
CorrectLeft(in) == ~in.isLeftLastSwinging

\* the Running branch of advance(), up to and including reGenerate
Replan(g, in, p, ans) ==
    LET endTime == in.initTime + p.plannerHorizon
        correctLeft == CorrectLeft(in)
        cleared == clearPersonFollowingDesiredTrajectory(g)
        pushed == [cleared EXCEPT !.desiredTrajectory =
                       Append(@, [time |-> endTime, point |-> in.plannerInput])]
        direct == [pushed EXCEPT !.directControl = in.plannerInput]
        seeded == [direct EXCEPT !.dcmInitialState = in.dcmInitialState]
        plan == [kind |-> "replan", initTime |-> in.initTime, endTime |-> endTime,
                 dt |-> p.dt, correctLeft |-> correctLeft,
                 stance |-> in.measuredTransform]
        done == [seeded EXCEPT !.plan = plan, !.leftFootPrint = plan,
                               !.rightFootPrint = plan]
        calls1 == << "clearPersonFollowingDesiredTrajectory",
                     "addPersonFollowingDesiredTrajectoryPoint" >>
        calls2 == calls1 \o << "setDesiredDirectControl", "setDCMInitialState" >>
    IN  IF ans = "waypoint"
        THEN [ok |-> FALSE, generator |-> cleared, trace |-> calls1]
        ELSE IF ans = "dcm"
        THEN [ok |-> FALSE, generator |-> direct, trace |-> calls2]
        ELSE IF ans = "reGenerate" \/ ~GeneratorAccepts(in.initTime, p.dt, endTime)
        THEN [ok |-> FALSE, generator |-> seeded, trace |-> Append(calls2, "reGenerate")]
        ELSE [ok |-> TRUE, generator |-> done, trace |-> Append(calls2, "reGenerate")]

\* mutant: advance() re-plans on its first run too
Replans_Always(s) == TRUE

\* line 482: "check if it is not the first run"
Replans(s) == s = "Running"

\* what advance() writes into each field of Output, from the generator
PullContactStatus(g) == Traj(g.plan)
PullSteps(g) == [leftSteps |-> g.leftFootPrint, rightSteps |-> g.rightFootPrint]
\* mutant: the DCM samples are not taken from the generator
PullDcm_Empty(g) == Traj(NoPlan)
PullDcm(g) == Traj(g.plan)
\* the CoM integration loop: one sample per DCM sample, from Input's CoM state
IntegrateCom(dcm, in) ==
    [plan |-> dcm.plan, len |-> dcm.len, comInitialState |-> in.comInitialState]
PullMergePoints(g) == Traj(g.plan)

\* the value advance() gives to Output field f, o being the Output so far
Written(f, o, g, in) ==
    CASE f = "contactStatus" -> PullContactStatus(g)
      [] f = "steps"         -> PullSteps(g)
      [] f = "dcmTrajectory" -> PullDcm(g)
      [] f = "comTrajectory" -> IntegrateCom(o.dcmTrajectory, in)
      [] f = "mergePoints"   -> PullMergePoints(g)

\* Output after the first k fields were written
RECURSIVE WriteFields(_, _, _, _)
WriteFields(k, o, g, in) ==
    IF k = 0 THEN o
    ELSE LET before == WriteFields(k - 1, o, g, in)
             f == OutputFields[k]
         IN  [before EXCEPT ![f] = Written(f, before, g, in)]

----------------------------------------------------------------------------
(* initialize *)

\* mutant: the fallback is logged but not assigned
Loaded_NoFallback(option, fallback) == IF option.given THEN option.value ELSE 0

\* the value a loadParamWithFallback leaves in its local
Loaded(option, fallback) == IF option.given THEN option.value ELSE fallback

\* lines 268-278: the locals the chain of loads fills from the handler, when
\* `ok` is still true as it reaches them
Parsed(cfg) ==
    [ controlType |-> IF cfg.controlType = Absent THEN DefaultControlType
                                                  ELSE cfg.controlType,
      slowWhenBackwardFactor |->
          Loaded(cfg.slowWhenBackwardFactor, DefaultSlowWhenBackwardFactor),
      slowWhenSidewaysFactor |->
          Loaded(cfg.slowWhenSidewaysFactor, DefaultSlowWhenSidewaysFactor),
      dt |-> Loaded(cfg.dt, DefaultDt),
      plannerHorizon |-> Loaded(cfg.plannerHorizon, DefaultPlannerHorizon) ]

\* mutant: a string that names no controller gives the direct one
setUnicycleControllerFromString_Lenient(unicycleControllerAsString) ==
    IF unicycleControllerAsString = "personFollowing"
    THEN [ok |-> TRUE, unicycleController |-> "PERSON_FOLLOWING"]
    ELSE [ok |-> TRUE, unicycleController |-> "DIRECT"]

\* lines 113-130: the controller a control type names
setUnicycleControllerFromString(unicycleControllerAsString) ==
    IF unicycleControllerAsString = "personFollowing"
    THEN [ok |-> TRUE, unicycleController |-> "PERSON_FOLLOWING"]
    ELSE IF unicycleControllerAsString = "direct"
    THEN [ok |-> TRUE, unicycleController |-> "DIRECT"]
    ELSE [ok |-> FALSE, unicycleController |-> "unassigned"]

\* line 325: the argument of setSlowWhenBackwardFactor
BackwardFactorGiven(parsed) == parsed.slowWhenBackwardFactor

\* line 326: the argument of setSlowWhenSidewaysFactor
SidewaysFactorGiven(parsed) == parsed.slowWhenBackwardFactor

\* lines 318-366: the generator is configured from the locals.  A generator
\* that rejects a setting rejects the first one (line 321).
Configure(g, cfg, parsed) ==
    IF ~cfg.settersAccept
    THEN [ok |-> FALSE, generator |-> g]
    ELSE LET set == [g EXCEPT
                        !.slowWhenBackwardFactor = BackwardFactorGiven(parsed),
                        !.slowWhenSidewaysFactor = SidewaysFactorGiven(parsed)]
             named == setUnicycleControllerFromString(parsed.controlType)
         IN  IF named.ok
             THEN [ok |-> TRUE,
                   generator |-> [set EXCEPT
                                     !.unicycleController = named.unicycleController]]
             ELSE [ok |-> FALSE, generator |-> set]

\* mutant: the `if (ok)` is missing
CommitInitialize_Unconditional(ok, s) == "Initialized"

\* lines 426-429: Impl::state after initialize()
CommitInitialize(ok, s) == IF ok THEN "Initialized" ELSE s

initialize(expired, cfg, ans) ==
    /\ Idle
    /\ nInitialize < MaxInitialize
    /\ IF expired
       THEN /\ Called("initialize", FALSE, << >>)
            /\ UNCHANGED << planner, threads >>
       ELSE LET okRef == OkUpTo(cfg, "referencePosition")
                okParams == OkUpTo(cfg, "rightContactFrameName")
                parsed == Parsed(cfg)
                configured == IF okParams
                              THEN Configure(generator, cfg, parsed)
                              ELSE [ok |-> FALSE, generator |-> generator]
                okConfigured == configured.ok
            IN  \E dtRead \in (IF okRef THEN {parsed.dt} ELSE Indeterminate),
                   horizonRead \in (IF okRef THEN {parsed.plannerHorizon}
                                             ELSE Indeterminate) :
                  LET p == [parameters EXCEPT
                              !.dt = dtRead,
                              !.plannerHorizon = horizonRead,
                              !.leftContactFrameName =
                                  IF OkUpTo(cfg, "leftContactFrameName")
                                  THEN LeftFrame ELSE @,
                              !.rightContactFrameName =
                                  IF OkUpTo(cfg, "rightContactFrameName")
                                  THEN RightFrame ELSE @]
                      first == generateFirstTrajectory(configured.generator, p, ans)
                      ok == okConfigured /\ first.ok
                  IN  /\ okConfigured \/ ans = "ok"
                      /\ parameters' = p
                      /\ generator' = IF okConfigured THEN first.generator
                                                      ELSE configured.generator
                      /\ state' = CommitInitialize(ok, state)
                      /\ CalledWith("initialize", ok,
                                    IF okConfigured THEN first.trace ELSE << >>,
                                    cfg)
                      /\ UNCHANGED << output, input, initTime, threads >>

----------------------------------------------------------------------------
(* advance, as one call of the driver thread *)

\* mutant: Output is written before the generator's answers are checked
advance_WritesOnFailure(ans) ==
    /\ Idle
    /\ mutex = "free"
    /\ IF state = "NotInitialized"
       THEN /\ ans = "ok"
            /\ Called("advance", FALSE, << >>)
            /\ UNCHANGED << planner, threads >>
       ELSE LET r == IF Replans(state)
                     THEN Replan(generator, input, parameters, ans)
                     ELSE [ok |-> TRUE, generator |-> generator, trace |-> << >>]
            IN  /\ Replans(state) \/ ans = "ok"
                /\ initTime' = input.initTime
                /\ generator' = r.generator
                /\ output' = WriteFields(Len(OutputFields), output, r.generator, input)
                /\ state' = IF r.ok THEN "Running" ELSE state
                /\ Called("advance", r.ok, r.trace)
                /\ UNCHANGED << input, parameters, threads >>

advance(ans) ==
    /\ Idle
    /\ mutex = "free"
    /\ IF state = "NotInitialized"
       THEN /\ ans = "ok"
            /\ Called("advance", FALSE, << >>)
            /\ UNCHANGED << planner, threads >>
       ELSE LET r == IF Replans(state)
                     THEN Replan(generator, input, parameters, ans)
                     ELSE [ok |-> TRUE, generator |-> generator, trace |-> << >>]
            IN  /\ Replans(state) \/ ans = "ok"
                /\ initTime' = input.initTime
                /\ generator' = r.generator
                /\ output' = IF r.ok
                             THEN WriteFields(Len(OutputFields), output, r.generator, input)
                             ELSE output
                /\ state' = IF r.ok THEN "Running" ELSE state
                /\ Called("advance", r.ok, r.trace)
                /\ UNCHANGED << input, parameters, threads >>

----------------------------------------------------------------------------
(* getOutput, called and read by the driver thread itself *)

getOutput ==
    /\ Idle
    /\ mutex = "free"
    /\ rdPc = "idle"
    /\ Called("getOutput", TRUE, << >>)
    /\ UNCHANGED << planner, threads >>

----------------------------------------------------------------------------
(* getContactPhaseList, called by the driver thread itself *)

\* the contact list of the left foot, as line 766 asks for it
LeftContacts ==
    getContactList(initTime, parameters.dt, output.contactStatus,
                   output.steps.leftSteps, parameters.leftContactFrameIndex)

\* mutant: the right list is asked for with the index of the left frame
RightContacts_LeftIndex ==
    getContactList(initTime, parameters.dt, output.contactStatus,
                   output.steps.rightSteps, parameters.leftContactFrameIndex)

\* the contact list of the right foot, as line 780 asks for it
RightContacts ==
    getContactList(initTime, parameters.dt, output.contactStatus,
                   output.steps.rightSteps, parameters.rightContactFrameIndex)

\* mutant: the left list is set alone when the right one cannot be built
ContactPhaseListOf_LeftAlone(valid, left, right) ==
    IF ~valid THEN EmptyPhaseList
    ELSE IF ~left.ok THEN EmptyPhaseList
    ELSE IF ~right.ok THEN [left_foot |-> left.list, right_foot |-> NoContacts]
    ELSE [left_foot |-> left.list, right_foot |-> right.list]

\* lines 750-799: the list returned, from the validity of the output and the
\* two answers of getContactList
ContactPhaseListOf(valid, left, right) ==
    IF ~valid THEN EmptyPhaseList
    ELSE IF ~left.ok THEN EmptyPhaseList
    ELSE IF ~right.ok THEN EmptyPhaseList
    ELSE [left_foot |-> left.list, right_foot |-> right.list]

getContactPhaseList ==
    /\ Idle
    /\ LET valid == isOutputValid
           left == LeftContacts
           right == RightContacts
       IN  /\ phases' =
                 [ leftContactList |->
                       IF valid /\ left.ok THEN left.list ELSE NoContacts,
                   rightContactList |->
                       IF valid /\ left.ok /\ right.ok THEN right.list ELSE NoContacts,
                   contactPhaseList |-> ContactPhaseListOf(valid, left, right) ]
           /\ trace' = IF valid THEN << "getStepPhases" >> ELSE << >>
    /\ op' = "getContactPhaseList"
    /\ ret' = TRUE
    /\ preState' = state
    /\ UNCHANGED << planner, threads, nInitialize, lipm, handler, replan, devices >>

----------------------------------------------------------------------------
(* advance, step by step, for a reader on another thread.  The steps are cut *)
(* where the mutex is taken and at each write of an Output field.            *)

\* lines 464-482: the state check, the copy of initTime
advanceBegin ==
    /\ Idle
    /\ IF state = "NotInitialized"
       THEN /\ Called("advance", FALSE, << >>)
            /\ UNCHANGED << planner, threads >>
       ELSE /\ initTime' = input.initTime
            /\ advPc' = IF Replans(state) THEN "replan" ELSE "lock"
            /\ op' = "advance"
            /\ trace' = << >>
            /\ preState' = state
            /\ UNCHANGED << state, output, input, parameters, generator,
                            mutex, rdPc, rdView, rdSeen, ret, nInitialize, locals >>

\* mutant: a failed re-plan does not end the call
advanceReplan_GoesOn(ans) ==
    /\ advPc = "replan"
    /\ LET r == Replan(generator, input, parameters, ans)
       IN  /\ generator' = r.generator
           /\ trace' = r.trace
           /\ advPc' = "lock"
           /\ ret' = ret
    /\ UNCHANGED << state, output, input, parameters, initTime,
                    mutex, rdPc, rdView, rdSeen, op, preState, nInitialize, locals >>

\* lines 483-590: the re-plan
advanceReplan(ans) ==
    /\ advPc = "replan"
    /\ LET r == Replan(generator, input, parameters, ans)
       IN  /\ generator' = r.generator
           /\ trace' = r.trace
           /\ advPc' = IF r.ok THEN "lock" ELSE "idle"
           /\ ret' = IF r.ok THEN ret ELSE FALSE
    /\ UNCHANGED << state, output, input, parameters, initTime,
                    mutex, rdPc, rdView, rdSeen, op, preState, nInitialize, locals >>

\* mutant: the lock_guard is missing
advanceLock_NoLock ==
    /\ advPc = "lock"
    /\ advPc' = OutputFields[1]
    /\ UNCHANGED << planner, mutex, rdPc, rdView, rdSeen, op, ret, trace, preState,
                    nInitialize, locals >>

\* line 593: std::lock_guard
advanceLock ==
    /\ advPc = "lock"
    /\ mutex = "free"
    /\ mutex' = "advance"
    /\ advPc' = OutputFields[1]
    /\ UNCHANGED << planner, rdPc, rdView, rdSeen, op, ret, trace, preState,
                    nInitialize, locals >>

\* lines 595-682: one field of Output is written
advanceWrite(k) ==
    /\ advPc = OutputFields[k]
    /\ output' = [output EXCEPT ![OutputFields[k]] =
                      Written(OutputFields[k], output, generator, input)]
    /\ advPc' = IF k < Len(OutputFields) THEN OutputFields[k + 1] ELSE "commit"
    /\ UNCHANGED << state, input, parameters, generator, initTime,
                    mutex, rdPc, rdView, rdSeen, op, ret, trace, preState,
                    nInitialize, locals >>

\* lines 684-687: the state becomes Running, the lock_guard is destroyed
advanceCommit ==
    /\ advPc = "commit"
    /\ state' = "Running"
    /\ mutex' = "free"
    /\ advPc' = "idle"
    /\ ret' = TRUE
    /\ UNCHANGED << output, input, parameters, generator, initTime,
                    rdPc, rdView, rdSeen, op, trace, preState, nInitialize, locals >>

----------------------------------------------------------------------------
(* The reader thread: getOutput(), then reads of the fields of the Output   *)
(* the returned reference designates                                         *)

\* line 439: std::lock_guard
getOutputLock ==
    /\ rdPc = "idle"
    /\ mutex = "free"
    /\ mutex' = "reader"
    /\ rdPc' = "locked"
    /\ UNCHANGED << planner, advPc, rdView, rdSeen, op, ret, trace, preState,
                    nInitialize, locals >>

\* line 441: the reference is returned, the lock_guard is destroyed
getOutputReturn ==
    /\ rdPc = "locked"
    /\ mutex' = "free"
    /\ rdPc' = "reading"
    /\ rdSeen' = {}
    /\ rdView' = DefaultOutput
    /\ UNCHANGED << planner, advPc, op, ret, trace, preState, nInitialize, locals >>

\* the caller reads the next field through the reference (it reads the
\* fields in the order of OutputFields)
readField(k) ==
    /\ rdPc = "reading"
    /\ rdSeen = {OutputFields[j] : j \in 1..(k - 1)}
    /\ rdView' = [rdView EXCEPT ![OutputFields[k]] = output[OutputFields[k]]]
    /\ rdSeen' = rdSeen \cup {OutputFields[k]}
    /\ UNCHANGED << planner, mutex, advPc, rdPc, op, ret, trace, preState,
                    nInitialize, locals >>

\* the caller is done with the reference
readDone ==
    /\ rdPc = "reading"
    /\ rdSeen = AllFields
    /\ rdPc' = "idle"
    /\ rdSeen' = {}
    /\ rdView' = DefaultOutput
    /\ UNCHANGED << planner, mutex, advPc, op, ret, trace, preState, nInitialize, locals >>

\* lines 745-762: getContactPhaseList() on the reader thread; no lock is taken
getContactPhaseListBegin ==
    /\ rdPc = "idle"
    /\ phases' = NoPhases
    /\ rdPc' = IF isOutputValid THEN "leftContacts" ELSE "phasesDone"
    /\ UNCHANGED << planner, mutex, advPc, rdView, rdSeen, op, ret, trace, preState,
                    nInitialize, lipm, handler, replan, devices >>

\* lines 766-778: the left contact list is built from Output
getLeftContactList ==
    /\ rdPc = "leftContacts"
    /\ IF LeftContacts.ok
       THEN /\ phases' = [phases EXCEPT !.leftContactList = LeftContacts.list]
            /\ rdPc' = "rightContacts"
       ELSE /\ rdPc' = "phasesDone"
            /\ UNCHANGED phases
    /\ UNCHANGED << planner, mutex, advPc, rdView, rdSeen, op, ret, trace, preState,
                    nInitialize, lipm, handler, replan, devices >>

\* lines 780-797: the right contact list is built from Output, the lists are set
getRightContactList ==
    /\ rdPc = "rightContacts"
    /\ IF RightContacts.ok
       THEN phases' = [phases EXCEPT
                          !.rightContactList = RightContacts.list,
                          !.contactPhaseList =
                              [left_foot |-> phases.leftContactList,
                               right_foot |-> RightContacts.list]]
       ELSE UNCHANGED phases
    /\ rdPc' = "phasesDone"
    /\ UNCHANGED << planner, mutex, advPc, rdView, rdSeen, op, ret, trace, preState,
                    nInitialize, lipm, handler, replan, devices >>

\* line 799: the list is returned; its caller is done with it
getContactPhaseListReturn ==
    /\ rdPc = "phasesDone"
    /\ rdPc' = "idle"
    /\ phases' = NoPhases
    /\ UNCHANGED << planner, mutex, advPc, rdView, rdSeen, op, ret, trace, preState,
                    nInitialize, lipm, handler, replan, devices >>

----------------------------------------------------------------------------
Next ==
    \/ \E model \in Models : setRobotContactFrames(model)
    \/ \E in \in Inputs : setInput(in)
    \/ isOutputValidCall
    \/ \E cfg \in Configs, ans \in ColdAnswers : initialize(FALSE, cfg, ans)
    \/ \E cfg \in NominalConfigs : initialize(TRUE, cfg, "ok")
    \/ \E ans \in ReplanAnswers : advance(ans)
    \/ getOutput
    \/ getContactPhaseList
    \/ Return

Spec == Init /\ [][Next]_vars

\* the driver calling initialize() with every handler, and advance()
InitNext ==
    \/ \E cfg \in Handlers, ans \in ColdAnswers : initialize(FALSE, cfg, ans)
    \/ advance("ok")
    \/ Return

InitSpec == Init /\ [][InitNext]_vars

\* the driver thread calling advance() step by step, and a reader thread
ConcNext ==
    \/ \E cfg \in NominalConfigs : initialize(FALSE, cfg, "ok")
    \/ \E model \in NominalModels : setRobotContactFrames(model)
    \/ \E in \in Inputs : setInput(in)
    \/ advanceBegin
    \/ \E ans \in ReplanAnswers : advanceReplan(ans)
    \/ advanceLock
    \/ \E k \in 1..Len(OutputFields) : advanceWrite(k)
    \/ advanceCommit
    \/ getOutputLock
    \/ getOutputReturn
    \/ \E k \in 1..Len(OutputFields) : readField(k)
    \/ readDone
    \/ getContactPhaseListBegin
    \/ getLeftContactList
    \/ getRightContactList
    \/ getContactPhaseListReturn
    \/ Return

ConcSpec == Init /\ [][ConcNext]_vars

----------------------------------------------------------------------------
(* the CoM planar trajectory of advance() *)

\* the state of the CoM system is [x, y, xdot, ydot]
StateSize == 4
PlanarSize == 2

\* omega = sqrt(g / comHeight), in a unit that makes it 1
Omega == 1

\* parameters.dt as the integration step, in a unit in which the halves and
\* sixths the integrator takes of it are whole numbers
IntegrationStep == 6

\* coordinates of the CoM initial state and of the DCM samples
Coordinates == {0, 1}

Identity(n) == [i \in 1..n |-> [j \in 1..n |-> IF i = j THEN 1 ELSE 0]]
MatScale(k, M) == [i \in DOMAIN M |-> [j \in DOMAIN M[i] |-> k * M[i][j]]]
VecAdd(v, w) == [i \in DOMAIN v |-> v[i] + w[i]]
VecScale(k, v) == [i \in DOMAIN v |-> k * v[i]]

RECURSIVE Dot(_, _, _)
Dot(row, v, n) == IF n = 0 THEN 0 ELSE Dot(row, v, n - 1) + row[n] * v[n]

MatVec(M, v) == [i \in DOMAIN M |-> Dot(M[i], v, Len(v))]

\* v.head<2>() and v.tail<2>()
Head2(v) == SubSeq(v, 1, PlanarSize)
Tail2(v) == SubSeq(v, Len(v) - PlanarSize + 1, Len(v))

\* Eigen::Matrix4d A = -omega * Eigen::Matrix4d::Identity()
A == MatScale(-Omega, Identity(StateSize))

B_SameSign == A

\* Eigen::Matrix4d B = -A
B == MatScale(-1, A)

\* LinearTimeInvariantSystem::dynamics: xdot = A x + B u
dynamics(x, u) == VecAdd(MatVec(A, x), MatVec(B, u))

\* RK4::oneStepIntegration: one explicit four-stage step of length h with the
\* control input held
oneStepIntegration(x, u, h) ==
    LET k1 == dynamics(x, u)
        k2 == dynamics(VecAdd(x, VecScale(h \div 2, k1)), u)
        k3 == dynamics(VecAdd(x, VecScale(h \div 2, k2)), u)
        k4 == dynamics(VecAdd(x, VecScale(h, k3)), u)
        sum == VecAdd(VecAdd(k1, VecScale(2, k2)), VecAdd(VecScale(2, k3), k4))
    IN  VecAdd(x, VecScale(h \div 6, sum))

Planar == [1..PlanarSize -> Coordinates]

\* Input::comInitialState
ComInitialStates == [initialPlanarPosition : Planar, initialPlanarVelocity : Planar]

\* one sample of output.dcmTrajectory
DcmSamples == [position : Planar, velocity : {<< 0, 0 >>, << 0, 1 >>}]

RECURSIVE SeqsOf(_, _)
SeqsOf(S, n) ==
    IF n = 0 THEN {<< >>}
    ELSE SeqsOf(S, n - 1) \cup {Append(q, e) : q \in SeqsOf(S, n - 1) \ {<< >>}, e \in S}
                          \cup {<<e>> : e \in S}

\* the profiles of the CoM height generator for a plan of n samples, one
\* record of position, velocity and acceleration per sample: a CoM kept at
\* one height, or one that rises
HeightProfiles(n) ==
    { [i \in 1..n |-> [position |-> 7 + climb * i, velocity |-> 10 + climb,
                       acceleration |-> 20 + i]] : climb \in {0, 1} }

\* the inputs of the CoM loop for the DCM trajectory d: an initial state and
\* the height profiles of the same plan
LipmInputs(d) ==
    { [NoLipm EXCEPT !.comInitialState = c, !.dcmTrajectory = d,
                     !.heightProfile = h] :
          c \in ComInitialStates, h \in HeightProfiles(Len(d)) }

ComInit ==
    /\ state = "NotInitialized"
    /\ output = DefaultOutput
    /\ input = DefaultInput
    /\ parameters = DefaultParameters
    /\ generator = DefaultGenerator
    /\ initTime = 0
    /\ mutex = "free"
    /\ advPc = "idle"
    /\ rdPc = "idle"
    /\ rdView = DefaultOutput
    /\ rdSeen = {}
    /\ op = "none"
    /\ ret = TRUE
    /\ trace = << >>
    /\ preState = "NotInitialized"
    /\ nInitialize = 0
    /\ phases = NoPhases
    /\ \E d \in SeqsOf(DcmSamples, MaxSamples) : lipm \in LipmInputs(d)
    /\ handler = NoHandler
    /\ replan = NoReplan
    /\ access = NoAccess
    /\ imuTest = NoImuTest
    /\ logger = NoLogger

\* std::vector<Eigen::Vector3d>::resize(n): n vectors; the coefficients of a
\* vector that nothing was assigned to yet hold a value g left in memory
Resized(n, g) == [k \in 1..n |-> << g, g, g >>]

\* v.head<2>() = xy
SetHead2(v, xy) == << xy[1], xy[2], v[3] >>

\* mutant: the height is written over the whole vector
SetZ_All(v, z) == << z, z, z >>

\* v.z() = z
SetZ(v, z) == << v[1], v[2], z >>

\* mutant: the control input is always taken from the first DCM sample
ControlInput_First(dcm, i) == dcm[1].position \o dcm[1].velocity

\* lines 644-645: controlInput << dcmTrajectory.position.at(i),
\* dcmTrajectory.velocity.at(i)
ControlInput(dcm, i) == dcm[i].position \o dcm[i].velocity

\* mutant: the planar position is taken from the derivative
PopulatedPosition_Derivative(x, dx) == Head2(dx)

\* line 641: comTrajectory.position[i].head<2>() = state.head<2>()
PopulatedPosition(x, dx) == Head2(x)

\* lines 623-636: state.head<2>() = initialPlanarPosition, state.tail<2>() =
\* initialPlanarVelocity; the CoM trajectories are resized to the size of the
\* DCM trajectory
comTrajectoryBegin ==
    /\ lipm.pc = "idle"
    /\ \E g \in Indeterminate :
          LET n == Len(lipm.dcmTrajectory)
          IN  lipm' = [lipm EXCEPT
                         !.pc = "loop",
                         !.i = 0,
                         !.position = Resized(n, g),
                         !.velocity = Resized(n, g),
                         !.acceleration = Resized(n, g),
                         !.state = lipm.comInitialState.initialPlanarPosition
                                       \o lipm.comInitialState.initialPlanarVelocity]
    /\ UNCHANGED << planner, threads, op, ret, trace, preState, nInitialize,
                    phases, handler, replan, devices >>

\* lines 638-663: one turn of the loop over the DCM samples
comTrajectorySample ==
    /\ lipm.pc = "loop"
    /\ lipm.i < Len(lipm.dcmTrajectory)
    /\ LET i == lipm.i + 1
           controlInput == ControlInput(lipm.dcmTrajectory, i)
           dx == dynamics(lipm.state, controlInput)
       IN  lipm' = [lipm EXCEPT
                      !.i = i,
                      !.states = Append(@, lipm.state),
                      !.position[i] = SetHead2(@, PopulatedPosition(lipm.state, dx)),
                      !.acceleration[i] = SetHead2(@, Tail2(dx)),
                      !.velocity[i] = SetHead2(@, Head2(dx)),
                      !.state = oneStepIntegration(lipm.state, controlInput,
                                                   IntegrationStep)]
    /\ UNCHANGED << planner, threads, op, ret, trace, preState, nInitialize,
                    phases, handler, replan, devices >>

\* lines 667-679: the height profiles are pulled from the generator and
\* stacked on the planar trajectories
stackHeight ==
    /\ lipm.pc = "loop"
    /\ lipm.i = Len(lipm.dcmTrajectory)
    /\ LET h == lipm.heightProfile
       IN  lipm' = [lipm EXCEPT
                      !.pc = "stacked",
                      !.position = [k \in 1..Len(lipm.position) |->
                                       SetZ(lipm.position[k], h[k].position)],
                      !.velocity = [k \in 1..Len(lipm.position) |->
                                       SetZ(lipm.velocity[k], h[k].velocity)],
                      !.acceleration = [k \in 1..Len(lipm.position) |->
                                           SetZ(lipm.acceleration[k],
                                                h[k].acceleration)]]
    /\ UNCHANGED << planner, threads, op, ret, trace, preState, nInitialize,
                    phases, handler, replan, devices >>

ComNext ==
    \/ comTrajectoryBegin
    \/ comTrajectorySample
    \/ stackHeight

ComSpec == ComInit /\ [][ComNext]_vars

----------------------------------------------------------------------------
(* the Running branch of advance(): the waypoint and the arguments of the   *)
(* re-plan.  Angles are counted in quarter turns, which keeps sines and      *)
(* cosines whole numbers.                                                    *)

\* std::cos and std::sin of an angle of a quarter turns
Cos(a) == CASE a % 4 = 0 -> 1 [] a % 4 = 1 -> 0 [] a % 4 = 2 -> -1 [] OTHER -> 0
Sin(a) == CASE a % 4 = 0 -> 0 [] a % 4 = 1 -> 1 [] a % 4 = 2 -> 0 [] OTHER -> -1

\* lines 537-543: unicycleRotation
UnicycleRotation(theta) ==
    << << Cos(theta), -Sin(theta) >>, << Sin(theta), Cos(theta) >> >>

\* the measured transform of the stance foot: a position and a yaw (the
\* other two angles do not enter the planar computation)
Transforms == [x : {0, 1}, y : {0, 1}, z : {7}, yaw : {0, 1}]

\* manif::SE3d::x(), y() and the yaw of asSO3() as roll-pitch-yaw
PlanarPosition(transform) == << transform.x, transform.y >>
Yaw(transform) == transform.yaw

\* the Input of a cycle of the Running branch
ReplanInputs ==
    [ initTime : {1},
      isLeftLastSwinging : BOOLEAN,
      plannerInput : [1..3 -> {0, 1}],
      measuredTransform : Transforms ]

\* the stored parameters the Running branch reads; the nominal width is even
ReplanParameters ==
    [ dt : DtValues,
      plannerHorizon : HorizonValues,
      nominalWidth : {2},
      referencePointDistance : {<< 1, 0 >>, << 0, 2 >>},
      leftYawDeltaInRad : {0, 1},
      rightYawDeltaInRad : {0, 1} ]

\* mutant: the unicycle is put on the outer side of the stance foot
UnicyclePositionFromStanceFoot_Outside(correctLeft, p) ==
    << 0, IF correctLeft THEN p.nominalWidth \div 2 ELSE -(p.nominalWidth \div 2) >>

\* lines 520-532: unicyclePositionFromStanceFoot
UnicyclePositionFromStanceFoot(correctLeft, p) ==
    << 0, IF correctLeft THEN -(p.nominalWidth \div 2) ELSE p.nominalWidth \div 2 >>

\* lines 525-533: unicycleAngle
UnicycleAngle(correctLeft, in, p) ==
    IF correctLeft
    THEN Yaw(in.measuredTransform) - p.leftYawDeltaInRad
    ELSE Yaw(in.measuredTransform) - p.rightYawDeltaInRad

\* lines 525-534: footPosition (both feet are read from the one measured
\* transform, lines 498-511)
FootPosition(correctLeft, in) == PlanarPosition(in.measuredTransform)

\* line 545: unicyclePosition
UnicyclePosition(correctLeft, in, p) ==
    VecAdd(MatVec(UnicycleRotation(UnicycleAngle(correctLeft, in, p)),
                  UnicyclePositionFromStanceFoot(correctLeft, p)),
           FootPosition(correctLeft, in))

\* lines 548-551: desiredPointInAbsoluteFrame
DesiredPointInAbsoluteFrame(relative, theta, position, p) ==
    VecAdd(MatVec(UnicycleRotation(theta),
                  VecAdd(p.referencePointDistance, relative)),
           position)

ReplanInit ==
    /\ state = "NotInitialized"
    /\ output = DefaultOutput
    /\ input = DefaultInput
    /\ parameters = DefaultParameters
    /\ generator = DefaultGenerator
    /\ initTime = 0
    /\ mutex = "free"
    /\ advPc = "idle"
    /\ rdPc = "idle"
    /\ rdView = DefaultOutput
    /\ rdSeen = {}
    /\ op = "none"
    /\ ret = TRUE
    /\ trace = << >>
    /\ preState = "NotInitialized"
    /\ nInitialize = 0
    /\ phases = NoPhases
    /\ lipm = NoLipm
    /\ handler = NoHandler
    /\ \E in \in ReplanInputs, p \in ReplanParameters :
          replan = [pc |-> "idle", input |-> in, parameters |-> p]
    /\ access = NoAccess
    /\ imuTest = NoImuTest
    /\ logger = NoLogger

\* lines 484-551.  desiredPointInRelativeFrame is declared without a value;
\* line 491 assigns its component 0 from plannerInput(0), line 492 assigns
\* component 0 again, from plannerInput(1), and component 1 is never
\* assigned: reading it gives an indeterminate value.
computeDesiredPoint ==
    /\ replan.pc = "idle"
    /\ \E unassigned \in Indeterminate :
          LET in == replan.input
              p == replan.parameters
              correctLeft == CorrectLeft(in)
              relative == << in.plannerInput[2], unassigned >>
              theta == UnicycleAngle(correctLeft, in, p)
              position == UnicyclePosition(correctLeft, in, p)
          IN  replan' =
                [ pc |-> "computed", input |-> in, parameters |-> p,
                  correctLeft |-> correctLeft,
                  endTime |-> in.initTime + p.plannerHorizon,
                  desiredPointInRelativeFrame |-> relative,
                  measuredPosition |-> PlanarPosition(in.measuredTransform),
                  measuredAngle |-> Yaw(in.measuredTransform),
                  unicycleAngle |-> theta,
                  unicyclePosition |-> position,
                  desiredPointInAbsoluteFrame |->
                      DesiredPointInAbsoluteFrame(relative, theta, position, p) ]
    /\ UNCHANGED << planner, threads, op, ret, trace, preState, nInitialize,
                    phases, lipm, handler, devices >>

\* lines 553-585: the waypoint is pushed, the command forwarded and the
\* re-plan asked for; the arguments of the calls are kept
callGenerator ==
    /\ replan.pc = "computed"
    /\ replan' =
          [ pc |-> "called", input |-> replan.input,
            parameters |-> replan.parameters,
            unicycleAngle |-> replan.unicycleAngle,
            unicyclePosition |-> replan.unicyclePosition,
            addPersonFollowingDesiredTrajectoryPoint |->
                [ time |-> replan.endTime,
                  point |-> replan.desiredPointInAbsoluteFrame ],
            setDesiredDirectControl |-> replan.input.plannerInput,
            reGenerate |->
                [ initTime |-> replan.input.initTime,
                  dt |-> replan.parameters.dt,
                  endTime |-> replan.endTime,
                  correctLeft |-> replan.correctLeft,
                  measuredPosition |-> replan.measuredPosition,
                  measuredAngle |-> replan.measuredAngle ] ]
    /\ UNCHANGED << planner, threads, op, ret, trace, preState, nInitialize,
                    phases, lipm, handler, devices >>

ReplanNext ==
    \/ computeDesiredPoint
    \/ callGenerator

ReplanSpec == ReplanInit /\ [][ReplanNext]_vars

----------------------------------------------------------------------------
(* Properties *)

\* the calls C1 is about
GuardedCalls == {"setInput", "advance", "setRobotContactFrames"}

\* C1: while the planner is NotInitialized, setInput, advance and
\* setRobotContactFrames return failure and leave the FSM state, the Input,
\* the parameters (frame indices included), the generator and the Output
\* as they were, in any number and order.
C1_NotInitializedNoOp ==
    [][ (state = "NotInitialized" /\ op' \in GuardedCalls)
            => (ret' = FALSE /\ UNCHANGED planner) ]_vars

\* a guarded call has just failed on a NotInitialized planner that was
\* initialized before and then demoted
C1_Witness ==
    /\ op \in GuardedCalls
    /\ preState = "NotInitialized"
    /\ ret = FALSE
    /\ nInitialize > 0
    /\ parameters.leftContactFrameName = LeftFrame

\* the generator calls of a re-plan
ReplanCalls ==
    {"addPersonFollowingDesiredTrajectoryPoint", "setDCMInitialState", "reGenerate"}

\* the calls of the sequence t
CallsOf(t) == {t[k] : k \in 1..Len(t)}

\* C2: the first advance() in state Initialized makes no generator call (no
\* waypoint push, no DCM seeding, no reGenerate), succeeds and moves to
\* Running; every advance() in state Running enters the re-plan: it pushes
\* the waypoint, and it goes on to reGenerate unless the generator rejected
\* the waypoint or the DCM initial state.
C2_FirstAdvanceDoesNotReplan ==
    /\ [][ (op' = "advance" /\ state = "Initialized")
              => /\ trace' = << >>
                 /\ generator' = generator
                 /\ ret' = TRUE
                 /\ state' = "Running" ]_vars
    /\ [][ (op' = "advance" /\ state = "Running")
              => /\ "addPersonFollowingDesiredTrajectoryPoint" \in CallsOf(trace')
                 /\ ret' => ReplanCalls \subseteq CallsOf(trace') ]_vars

\* the first advance() after initialize() has just returned
C2_Witness ==
    /\ op = "advance"
    /\ preState = "Initialized"
    /\ ret = TRUE
    /\ state = "Running"
    /\ trace = << >>
    /\ output.dcmTrajectory.plan.kind = "cold"

\* C3: isOutputValid() returns true exactly when the FSM state is Running;
\* it is false in NotInitialized and in Initialized.
C3_OutputValidIffRunning ==
    /\ op = "isOutputValid" => (ret <=> state = "Running")
    /\ state \in {"NotInitialized", "Initialized"} => ~isOutputValid
    /\ state = "Running" => isOutputValid

\* isOutputValid() has just answered false on an initialized planner
C3_Witness ==
    /\ op = "isOutputValid"
    /\ state = "Initialized"
    /\ ret = FALSE

\* C4: an advance() in state Running that fails (waypoint rejected, DCM
\* initial state rejected, re-plan failed) returns false, leaves every field
\* of Output as it was, and leaves the FSM state Running.
C4_FailedAdvanceKeepsOutput ==
    [][ (op' = "advance" /\ state = "Running" /\ ret' = FALSE)
            => (output' = output /\ state' = "Running") ]_vars

\* a re-plan has just failed at reGenerate, on a planner whose Output holds a
\* plan other than the one the re-plan asked for
C4_Witness ==
    /\ op = "advance"
    /\ preState = "Running"
    /\ ret = FALSE
    /\ state = "Running"
    /\ "reGenerate" \in CallsOf(trace)
    /\ output.dcmTrajectory.plan.kind # "none"
    /\ output.dcmTrajectory.plan.initTime # input.initTime

\* the model cannot be loaded, or lacks a configured contact frame
LacksFrame(model) ==
    \/ ~model.loadable
    \/ parameters.leftContactFrameName \notin model.frames
    \/ parameters.rightContactFrameName \notin model.frames

\* C5: setRobotContactFrames on an initialized planner (Initialized or
\* Running) with a model that cannot be loaded or lacks the configured left
\* or right frame returns failure and makes the state NotInitialized; then
\* advance() and setInput() fail, and the state stays NotInitialized until
\* an initialize() succeeds.
C5_MissingFrameDemotes ==
    /\ [][ \A model \in Models :
              (setRobotContactFrames(model) /\ state # "NotInitialized"
                                            /\ LacksFrame(model))
                  => (ret' = FALSE /\ state' = "NotInitialized") ]_vars
    /\ [][ (state = "NotInitialized" /\ op' \in {"advance", "setInput"})
              => (ret' = FALSE /\ state' = "NotInitialized") ]_vars
    /\ [][ (state = "NotInitialized" /\ state' # "NotInitialized")
              => (op' = "initialize" /\ ret' = TRUE) ]_vars

\* setRobotContactFrames has just failed on a Running planner because the
\* right frame is missing from the model
C5_Witness ==
    /\ op = "setRobotContactFrames"
    /\ preState = "Running"
    /\ ret = FALSE
    /\ state = "NotInitialized"
    /\ parameters.leftContactFrameIndex # FRAME_INVALID_INDEX
    /\ parameters.rightContactFrameIndex = FRAME_INVALID_INDEX

\* C6: whenever initialize() (with a live handler) returns failure, the FSM
\* state after the call is NotInitialized, whatever it was before.
C6_FailedInitializeDemotes ==
    [][ \A cfg \in Configs, ans \in ColdAnswers :
           (initialize(FALSE, cfg, ans) /\ ret' = FALSE)
               => state' = "NotInitialized" ]_vars

\* C7, as claimed: the FSM only moves NotInitialized -> Initialized,
\* Initialized -> Running, Running -> Running, or to NotInitialized; once
\* Running it never goes back to Initialized.
C7_NeverBackToInitialized ==
    [][ state' # state
           => \/ (state = "NotInitialized" /\ state' = "Initialized")
              \/ (state = "Initialized" /\ state' = "Running")
              \/ state' = "NotInitialized" ]_vars

\* C7, amended: the state changes only in these ways: to Initialized by an
\* initialize() that succeeds (from any state, Running included), from
\* Initialized to Running by an advance() that succeeds, and to
\* NotInitialized by a setRobotContactFrames that fails; every other call
\* leaves it as it is, and a successful advance() in Running stays Running.
C7_Transitions ==
    /\ [][ state' # state
              => \/ (state' = "Initialized" /\ op' = "initialize" /\ ret' = TRUE)
                 \/ (state = "Initialized" /\ state' = "Running"
                        /\ op' = "advance" /\ ret' = TRUE)
                 \/ (state' = "NotInitialized" /\ op' = "setRobotContactFrames"
                        /\ ret' = FALSE) ]_vars
    /\ [][ (op' = "initialize" /\ ret' = TRUE) => state' = "Initialized" ]_vars
    /\ [][ (op' = "advance" /\ ret' = TRUE) => state' = "Running" ]_vars

\* a successful initialize() has just taken a Running planner back to
\* Initialized
C7_Witness ==
    /\ op = "initialize"
    /\ preState = "Running"
    /\ ret = TRUE
    /\ state = "Initialized"

\* the number of samples the stored parameters ask for: horizon / dt
HorizonSamples ==
    IF parameters.dt > 0 THEN parameters.plannerHorizon \div parameters.dt ELSE 0

\* C8, as claimed: right after a successful initialize(), isOutputValid() is
\* false and the Output holds the cold-start plan: DCM, CoM and contact
\* status with horizon/dt samples, not the empty default.
C8_OutputHoldsColdStart ==
    (op = "initialize" /\ ret = TRUE)
        => /\ ~isOutputValid
           /\ output.dcmTrajectory.len = HorizonSamples
           /\ output.comTrajectory.len = HorizonSamples
           /\ output.contactStatus.len = HorizonSamples
           /\ output.dcmTrajectory.len > 0

\* C8, amended: initialize() never writes Output.  Right after a successful
\* initialize(), isOutputValid() is false and getOutput() gives the Output as
\* it was before the call: the empty default (0 samples) on a new planner.
\* The cold-start plan is in the generator only; the first advance() copies
\* it into Output.
C8_InitializeLeavesOutput ==
    /\ [][ op' = "initialize" => output' = output ]_vars
    /\ [][ (op' = "initialize" /\ ret' = TRUE) => ~isOutputValid' ]_vars
    /\ [](nInitialize = 1 /\ op = "initialize" => output = DefaultOutput)
    /\ [][ (op' = "advance" /\ state = "Initialized")
              => /\ output'.dcmTrajectory = Traj(generator.plan)
                 /\ output'.comTrajectory.len = Samples(generator.plan)
                 /\ output'.contactStatus = Traj(generator.plan) ]_vars

\* a first initialize() has just succeeded: the generator holds a cold-start
\* plan of horizon/dt samples and the Output is still empty
C8_Witness ==
    /\ op = "initialize"
    /\ ret = TRUE
    /\ nInitialize = 1
    /\ state = "Initialized"
    /\ generator.plan.kind = "cold"
    /\ Samples(generator.plan) = HorizonSamples
    /\ HorizonSamples > 0
    /\ output = DefaultOutput

\* the fields of an Output all come from one plan of the generator
Coherent(o) ==
    /\ o.dcmTrajectory.plan = o.contactStatus.plan
    /\ o.comTrajectory.plan = o.contactStatus.plan
    /\ o.mergePoints.plan = o.contactStatus.plan
    /\ o.steps.leftSteps = o.contactStatus.plan
    /\ o.steps.rightSteps = o.contactStatus.plan
    /\ o.comTrajectory.len = o.dcmTrajectory.len

\* C9: a reader that calls getOutput() and reads the fields of the Output it
\* returned, while another thread runs advance(), never sees fields of two
\* different plans.
C9_NoPartialOutput ==
    (rdPc = "reading" /\ rdSeen = AllFields) => Coherent(rdView)

\* the positions of advance() at which it writes Output or is about to return
WritingPcs == AllFields \cup {"commit"}

\* C10, as claimed: the mutex is free while the new trajectory is computed,
\* the re-plan and the CoM integration loop included.
C10_ComputesWithMutexFree ==
    advPc \in {"replan", "comTrajectory"} => mutex # "advance"

\* C10, amended: advance() does not hold the mutex while the generator
\* re-plans; it takes it right after and holds it until it returns, so the
\* pull of the generator's results and the CoM integration loop run with the
\* mutex held and write into Output directly.
C10_LockDiscipline ==
    /\ advPc \in {"replan", "lock"} => mutex # "advance"
    /\ advPc \in WritingPcs => mutex = "advance"
    /\ advPc = "idle" => mutex # "advance"

\* a re-planning advance() is at the CoM integration loop, holding the mutex
C10_Witness ==
    /\ advPc = "comTrajectory"
    /\ preState = "Running"
    /\ mutex = "advance"
    /\ output.dcmTrajectory.plan.kind = "replan"

\* the two lists of a contact phase list were built from one plan
OnePlan(list) ==
    /\ list.left_foot.timeline = list.right_foot.timeline
    /\ list.left_foot.steps = list.left_foot.timeline
    /\ list.right_foot.steps = list.right_foot.timeline

\* C11: getContactPhaseList() reads Output only with the mutex held, so on
\* another thread than advance() it never builds its list from an Output that
\* advance() is rewriting: the contact timelines and the footsteps of the two
\* lists it returns come from one plan.
C11_PhaseListFromOnePlan ==
    (rdPc = "phasesDone" /\ phases.contactPhaseList.left_foot.filled)
        => OnePlan(phases.contactPhaseList)

\* only one foot of a contact phase list holds contacts
OneFootOnly(list) == list.left_foot.filled # list.right_foot.filled

\* C12: getContactPhaseList() returns an empty list whenever the output is
\* not valid (state NotInitialized or Initialized) and whenever the contact
\* list of either foot cannot be built; it never returns a list that holds
\* the contacts of one foot only.
C12_EmptyPhaseListOnFailure ==
    op = "getContactPhaseList"
        => /\ state \in {"NotInitialized", "Initialized"}
                 => phases.contactPhaseList = EmptyPhaseList
           /\ (~LeftContacts.ok \/ ~RightContacts.ok)
                 => phases.contactPhaseList = EmptyPhaseList
           /\ ~OneFootOnly(phases.contactPhaseList)

\* getContactPhaseList() has just returned an empty list on a Running planner
\* because the right contact list alone could not be built
C12_Witness ==
    /\ op = "getContactPhaseList"
    /\ state = "Running"
    /\ LeftContacts.ok
    /\ ~RightContacts.ok
    /\ phases.leftContactList.filled
    /\ phases.contactPhaseList = EmptyPhaseList

\* C13: after every successful advance(), first or repeated, the DCM
\* position and velocity and the CoM position, velocity and acceleration
\* sequences of Output each hold exactly horizon/dt samples, horizon and dt
\* being the stored parameters.
C13_HorizonOverDtSamples ==
    (op = "advance" /\ ret)
        => /\ output.dcmTrajectory.len = HorizonSamples
           /\ output.comTrajectory.len = HorizonSamples

\* C14: on an initialized planner (Initialized or Running) setInput succeeds
\* and stores the given Input as it is; nothing but a successful setInput
\* changes the stored Input, advance() included; and each advance() works
\* from the stored Input: its start time, command, swinging-foot flag,
\* measured transform, DCM initial state and CoM initial state.
C14_AdvanceUsesLatestInput ==
    /\ [][ \A in \in Inputs :
              (setInput(in) /\ state # "NotInitialized")
                  => (ret' = TRUE /\ input' = in) ]_vars
    /\ [][ input' # input => (op' = "setInput" /\ ret' = TRUE) ]_vars
    /\ [][ (op' = "advance" /\ ret' = TRUE)
              => /\ input' = input
                 /\ initTime' = input.initTime
                 /\ output'.comTrajectory.comInitialState = input.comInitialState ]_vars
    /\ [][ (op' = "advance" /\ state = "Running" /\ ret' = TRUE)
              => /\ generator'.plan.initTime = input.initTime
                 /\ generator'.plan.correctLeft = ~input.isLeftLastSwinging
                 /\ generator'.plan.stance = input.measuredTransform
                 /\ generator'.directControl = input.plannerInput
                 /\ generator'.desiredTrajectory[1].point = input.plannerInput
                 /\ generator'.dcmInitialState = input.dcmInitialState ]_vars

\* a re-planning advance() has just succeeded with an Input stored after the
\* previous advance(): the plan starts at that Input's time
C14_Witness ==
    /\ op = "advance"
    /\ preState = "Running"
    /\ ret = TRUE
    /\ input # DefaultInput
    /\ input.isLeftLastSwinging
    /\ generator.plan.initTime = input.initTime
    /\ generator.plan.stance = input.measuredTransform
    /\ output.comTrajectory.comInitialState = input.comInitialState

\* the handlers that lack a required option
Incomplete == {cfg \in Handlers : cfg.absent # {}}

\* the handlers that hold every required option and that the generator
\* accepts
Accepted ==
    {cfg \in Handlers : /\ cfg.absent = {}
                        /\ cfg.settersAccept
                        /\ cfg.controlType # "other"}

\* C15: initialize() fails, and does not take the planner to Initialized,
\* when a required option is absent; with the required options present and a
\* generator that accepts them it succeeds whichever optional options are
\* absent, and an absent optional option is read as its documented default
\* (dt 0.002 s, plannerHorizon 20 s, controlType "direct",
\* slowWhenBackwardFactor 0.4, slowWhenSidewaysFactor 0.2).
C15_RequiredAndOptionalOptions ==
    /\ [][ (op' = "initialize" /\ handler' \in Incomplete)
              => /\ ret' = FALSE
                 /\ state' = "Initialized" => state = "Initialized" ]_vars
    /\ [][ ( /\ op' = "initialize"
             /\ handler' \in Accepted
             /\ \E cfg \in {handler'} : initialize(FALSE, cfg, "ok") )
              => /\ ret' = TRUE
                 /\ state' = "Initialized"
                 /\ ~handler'.dt.given => parameters'.dt = DefaultDt
                 /\ ~handler'.plannerHorizon.given
                       => parameters'.plannerHorizon = DefaultPlannerHorizon
                 /\ handler'.controlType = Absent
                       => generator'.unicycleController = "DIRECT"
                 /\ ~handler'.slowWhenBackwardFactor.given
                       => generator'.slowWhenBackwardFactor
                              = DefaultSlowWhenBackwardFactor
                 /\ ~handler'.slowWhenSidewaysFactor.given
                       => Parsed(handler').slowWhenSidewaysFactor
                              = DefaultSlowWhenSidewaysFactor ]_vars

\* an initialize() has just succeeded with a handler that gives
\* "plannerHorizon" and leaves out "dt", the control type and the factors
C15_Witness ==
    /\ op = "initialize"
    /\ ret = TRUE
    /\ state = "Initialized"
    /\ parameters.dt = DefaultDt
    /\ parameters.plannerHorizon \in HorizonValues
    /\ generator.unicycleController = "DIRECT"
    /\ generator.slowWhenBackwardFactor = DefaultSlowWhenBackwardFactor
    /\ generator.plan.kind = "cold"
    /\ handler.plannerHorizon.given
    /\ ~handler.dt.given
    /\ handler.controlType = Absent
    /\ ~handler.slowWhenBackwardFactor.given
    /\ ~handler.slowWhenSidewaysFactor.given

\* C16: a successful initialize() has set the generator's slow-when-sideways
\* factor to the "slowWhenSidewaysFactor" option (0.2 when absent) and its
\* slow-when-backward factor to the "slowWhenBackwardFactor" option (0.4
\* when absent), each whatever the other is.
C16_FactorsSetIndependently ==
    [][ (op' = "initialize" /\ ret' = TRUE)
           => /\ generator'.slowWhenSidewaysFactor
                    = Loaded(handler'.slowWhenSidewaysFactor,
                             DefaultSlowWhenSidewaysFactor)
              /\ generator'.slowWhenBackwardFactor
                    = Loaded(handler'.slowWhenBackwardFactor,
                             DefaultSlowWhenBackwardFactor) ]_vars

\* C17: once initialize() has succeeded, setInput, advance,
\* setRobotContactFrames and an initialize() that fails leave the stored dt
\* and planning horizon as they are.
C17_ParametersImmutable ==
    [][ ( /\ state # "NotInitialized"
          /\ \/ op' \in {"setInput", "advance", "setRobotContactFrames"}
             \/ (op' = "initialize" /\ ret' = FALSE) )
            => /\ parameters'.dt = parameters.dt
               /\ parameters'.plannerHorizon = parameters.plannerHorizon ]_vars

\* the DCM sample i is the CoM state at which sample i was taken
HeldAtCoM(i) ==
    lipm.dcmTrajectory[i].position \o lipm.dcmTrajectory[i].velocity
        = lipm.states[i]

\* the CoM initial state as the 4-vector the loop starts from
InitialState ==
    lipm.comInitialState.initialPlanarPosition
        \o lipm.comInitialState.initialPlanarVelocity

\* C20: while every DCM sample taken so far equals the CoM state at that
\* sample (u = x), the integrated CoM state at every sample, and after the
\* last step, is the initial CoM state of the Input, the recorded planar
\* position is its position, and every recorded planar velocity and
\* acceleration is zero.
C20_FixedPointOfLipm ==
    (lipm.pc = "loop" /\ \A i \in 1..Len(lipm.states) : HeldAtCoM(i))
        => /\ lipm.state = InitialState
           /\ \A i \in 1..Len(lipm.states) :
                 /\ lipm.states[i] = InitialState
                 /\ Head2(lipm.position[i]) = Head2(InitialState)
                 /\ Head2(lipm.velocity[i]) = <<0, 0>>
                 /\ Head2(lipm.acceleration[i]) = <<0, 0>>

\* the loop has run over a whole DCM trajectory of several samples, each
\* held at the CoM state, from a CoM that is neither at the origin nor at rest
C20_Witness ==
    /\ lipm.pc = "loop"
    /\ Len(lipm.states) = Len(lipm.dcmTrajectory)
    /\ Len(lipm.states) >= 2
    /\ \A i \in 1..Len(lipm.states) : HeldAtCoM(i)
    /\ lipm.comInitialState.initialPlanarPosition # <<0, 0>>
    /\ lipm.comInitialState.initialPlanarVelocity # <<0, 0>>

\* C21: the waypoint pushed to the generator is R(theta) * (reference-point
\* offset + (command[0], command[1])) + unicycle position: the local-frame x
\* of the target is the first component of the command and its local-frame
\* y the second.
C21_WaypointFromCommand ==
    replan.pc = "called"
        => replan.addPersonFollowingDesiredTrajectoryPoint.point
              = VecAdd(MatVec(UnicycleRotation(replan.unicycleAngle),
                              VecAdd(replan.parameters.referencePointDistance,
                                     << replan.input.plannerInput[1],
                                        replan.input.plannerInput[2] >>)),
                       replan.unicyclePosition)

\* C22: the stance flag passed to the re-plan says "left is stance" exactly
\* when Input.isLeftLastSwinging is false, and the stance position and angle
\* passed are the planar position and the yaw of Input.measuredTransform.
C22_StanceOfReplan ==
    replan.pc = "called"
        => /\ replan.reGenerate.correctLeft <=> ~replan.input.isLeftLastSwinging
           /\ replan.reGenerate.measuredPosition
                 = << replan.input.measuredTransform.x,
                      replan.input.measuredTransform.y >>
           /\ replan.reGenerate.measuredAngle = replan.input.measuredTransform.yaw

\* the re-plan was asked for with the left foot swinging last, from a foot
\* that is turned and whose planar coordinates differ
C22_Witness ==
    /\ replan.pc = "called"
    /\ replan.input.isLeftLastSwinging
    /\ ~replan.reGenerate.correctLeft
    /\ replan.input.measuredTransform.x # replan.input.measuredTransform.y
    /\ replan.input.measuredTransform.yaw # 0

\* C24: with the left foot as stance the unicycle is at footPosition +
\* R(theta) * (0, -nominalWidth/2) with theta = measuredYaw - leftYawOffset;
\* with the right foot as stance it is at footPosition + R(theta) *
\* (0, +nominalWidth/2) with theta = measuredYaw - rightYawOffset.
C24_UnicyclePose ==
    replan.pc # "idle"
        => LET in == replan.input
               p == replan.parameters
               foot == << in.measuredTransform.x, in.measuredTransform.y >>
               half == p.nominalWidth \div 2
               theta == IF ~in.isLeftLastSwinging
                        THEN in.measuredTransform.yaw - p.leftYawDeltaInRad
                        ELSE in.measuredTransform.yaw - p.rightYawDeltaInRad
               lateral == IF ~in.isLeftLastSwinging THEN -half ELSE half
           IN  /\ replan.unicycleAngle = theta
               /\ replan.unicyclePosition
                     = << foot[1] - Sin(theta) * lateral,
                          foot[2] + Cos(theta) * lateral >>

\* the pose was computed with the left foot as stance and with a foot turned
\* by a quarter turn beyond its yaw offset
C24_Witness ==
    /\ replan.pc = "computed"
    /\ ~replan.input.isLeftLastSwinging
    /\ replan.unicycleAngle = 1
    /\ replan.unicyclePosition # << replan.input.measuredTransform.x,
                                     replan.input.measuredTransform.y >>

\* C23: when a re-planning advance() asks the generator for the re-plan, the
\* pending desired trajectory holds exactly one point, timed at
\* Input.initTime + horizon; no point of the cold start or of an earlier
\* cycle remains; and the plan a successful re-plan gives spans
\* [initTime, endTime] with step dt.
C23_OnePendingPoint ==
    [][ ( /\ op' = "advance"
          /\ state = "Running"
          /\ \E k \in 1..Len(trace') : trace'[k] = "reGenerate" )
            => /\ Len(generator'.desiredTrajectory) = 1
               /\ generator'.desiredTrajectory[1].time
                     = input.initTime + parameters.plannerHorizon
               /\ ret' = TRUE
                     => /\ generator'.plan.initTime = input.initTime
                        /\ generator'.plan.endTime
                              = input.initTime + parameters.plannerHorizon
                        /\ generator'.plan.dt = parameters.dt ]_vars

\* a re-planning advance() has succeeded on a plan that was itself a
\* re-plan, for a cycle that starts later than the cold start
C23_Witness ==
    /\ op = "advance"
    /\ ret = TRUE
    /\ preState = "Running"
    /\ Len(trace) > 0
    /\ input.initTime > 0
    /\ Len(generator.desiredTrajectory) = 1
    /\ generator.plan.kind = "replan"
    /\ output.dcmTrajectory.plan.initTime = input.initTime

\* the generator calls of a re-plan, in the order the claim gives them
ReplanOrder ==
    << "clearPersonFollowingDesiredTrajectory",
       "addPersonFollowingDesiredTrajectoryPoint",
       "setDesiredDirectControl", "setDCMInitialState", "reGenerate" >>

IsPrefix(s, t) == Len(s) <= Len(t) /\ s = SubSeq(t, 1, Len(s))

\* C25: a re-planning advance() clears the pending points, pushes the
\* waypoint, forwards the command as direct control, seeds the DCM generator
\* and asks for the re-plan, in this order; it takes the mutex and writes
\* Output only after the re-plan; when the push fails the DCM generator is
\* not seeded and no re-plan is asked for, and when the seeding fails no
\* re-plan is asked for: in both cases the call ends without the mutex.
C25_OrderOfReplan ==
    /\ []((op = "advance" /\ preState = "Running") => IsPrefix(trace, ReplanOrder))
    /\ [][ (advPc = "replan" /\ trace' # trace)
              => /\ Len(trace') = 2
                    => /\ generator'.dcmInitialState = generator.dcmInitialState
                       /\ generator'.directControl = generator.directControl
                       /\ generator'.plan = generator.plan
                       /\ advPc' = "idle"
                 /\ Len(trace') = 4
                    => /\ generator'.plan = generator.plan
                       /\ advPc' = "idle"
                 /\ Len(trace') \in {2, 4, 5}
                 /\ advPc' = "lock"
                    => /\ trace' = ReplanOrder
                       /\ generator'.dcmInitialState = input.dcmInitialState
                       /\ generator'.plan.kind = "replan" ]_vars
    /\ [][ (mutex' = "advance" /\ mutex # "advance" /\ preState = "Running")
              => trace = ReplanOrder /\ generator.plan.kind = "replan" ]_vars
    /\ [][ output' # output
              => /\ mutex = "advance"
                 /\ preState = "Running" => trace = ReplanOrder ]_vars

\* a re-planning advance() holds the mutex and has written Output after the
\* five generator calls
C25_Witness ==
    /\ advPc = "commit"
    /\ mutex = "advance"
    /\ preState = "Running"
    /\ trace = ReplanOrder
    /\ output.dcmTrajectory.plan = generator.plan
    /\ generator.plan.kind = "replan"

\* the control input of sample i: the DCM position and velocity of sample i
InputOfSample(i) ==
    lipm.dcmTrajectory[i].position \o lipm.dcmTrajectory[i].velocity

\* C26: for every sample i taken, the CoM planar position[i] is the state of
\* the integrator before step i (the first one being the initial planar
\* position of the Input), the planar velocity[i] is the first two and the
\* planar acceleration[i] the last two components of A x_i + B u_i with
\* u_i = (dcmPosition[i], dcmVelocity[i]), and x_(i+1) is one fixed-step
\* integration of x_i over dt.
C26_ComSamples ==
    lipm.pc # "idle"
        => /\ Len(lipm.states) = lipm.i
           /\ lipm.i > 0 => lipm.states[1] = InitialState
           /\ \A i \in 1..lipm.i :
                 LET x == lipm.states[i]
                     xdot == VecAdd(MatVec(A, x), MatVec(B, InputOfSample(i)))
                     next == IF i < lipm.i THEN lipm.states[i + 1] ELSE lipm.state
                 IN  /\ Head2(lipm.position[i]) = << x[1], x[2] >>
                     /\ Head2(lipm.velocity[i]) = << xdot[1], xdot[2] >>
                     /\ Head2(lipm.acceleration[i]) = << xdot[3], xdot[4] >>
                     /\ next = oneStepIntegration(x, InputOfSample(i),
                                                  IntegrationStep)
           /\ lipm.i > 0
                 => Head2(lipm.position[1])
                        = lipm.comInitialState.initialPlanarPosition

\* the trajectories of a plan of several samples are complete, from a CoM
\* that moves and DCM samples that are not at the CoM
C26_Witness ==
    /\ lipm.pc = "stacked"
    /\ lipm.i >= 2
    /\ lipm.states[2] # lipm.states[1]
    /\ Head2(lipm.velocity[1]) # << 0, 0 >>
    /\ Head2(lipm.acceleration[2]) # << 0, 0 >>

\* C27: after advance() the CoM position, velocity and acceleration
\* sequences have the length of the DCM sequence, and sample i of each was
\* computed from sample i of the DCM sequence.
C27_AlignedWithDcm ==
    lipm.pc = "stacked"
        => /\ Len(lipm.position) = Len(lipm.dcmTrajectory)
           /\ Len(lipm.velocity) = Len(lipm.dcmTrajectory)
           /\ Len(lipm.acceleration) = Len(lipm.dcmTrajectory)
           /\ lipm.i = Len(lipm.dcmTrajectory)
           /\ \A i \in 1..Len(lipm.dcmTrajectory) :
                 LET dx == dynamics(lipm.states[i], InputOfSample(i))
                 IN  /\ Head2(lipm.velocity[i]) = Head2(dx)
                     /\ Head2(lipm.acceleration[i]) = Tail2(dx)
                     /\ Head2(lipm.position[i]) = Head2(lipm.states[i])

\* the trajectories are complete for a DCM sequence whose samples differ
C27_Witness ==
    /\ lipm.pc = "stacked"
    /\ Len(lipm.dcmTrajectory) = MaxSamples
    /\ lipm.dcmTrajectory[1] # lipm.dcmTrajectory[2]
    /\ Len(lipm.acceleration) = MaxSamples

\* C28: after advance() the z-components of CoM position, velocity and
\* acceleration at sample i are sample i of the height generator's position,
\* velocity and acceleration profiles, and stacking the height leaves the
\* planar components the integration produced as they were.
C28_HeightStacked ==
    /\ [](lipm.pc = "stacked"
            => \A i \in 1..Len(lipm.position) :
                  /\ lipm.position[i][3] = lipm.heightProfile[i].position
                  /\ lipm.velocity[i][3] = lipm.heightProfile[i].velocity
                  /\ lipm.acceleration[i][3] = lipm.heightProfile[i].acceleration)
    /\ [][ lipm'.pc = "stacked"
              => /\ Len(lipm'.position) = Len(lipm.position)
                 /\ \A i \in 1..Len(lipm.position) :
                       /\ Head2(lipm'.position[i]) = Head2(lipm.position[i])
                       /\ Head2(lipm'.velocity[i]) = Head2(lipm.velocity[i])
                       /\ Head2(lipm'.acceleration[i])
                             = Head2(lipm.acceleration[i]) ]_vars

\* the height of a rising CoM was stacked on a planar trajectory of several
\* samples that is not at the origin
C28_Witness ==
    /\ lipm.pc = "stacked"
    /\ Len(lipm.position) >= 2
    /\ lipm.position[2][3] # lipm.position[1][3]
    /\ Head2(lipm.position[1]) # << 0, 0 >>
    /\ Head2(lipm.position[1]) # << lipm.position[1][3], lipm.position[1][3] >>

\* the handlers that hold every required option and whose other settings
\* the generator accepts, whatever their control type
Complete == {cfg \in Handlers : cfg.absent = {} /\ cfg.settersAccept}

\* C29: initialize() sets the controller mode to PersonFollowing when
\* controlType is "personFollowing" and to Direct when it is "direct" or
\* absent; for any other string setUnicycleControllerFromString returns
\* false and assigns no controller, the generator's controller stays as it
\* was, and initialize() fails without taking the planner to Initialized.
C29_ControllerFromString ==
    [][ (op' = "initialize" /\ handler' \in Complete)
           => /\ handler'.controlType = "personFollowing"
                    => generator'.unicycleController = "PERSON_FOLLOWING"
              /\ handler'.controlType \in {"direct", Absent}
                    => generator'.unicycleController = "DIRECT"
              /\ handler'.controlType \notin {"personFollowing", "direct", Absent}
                    => /\ ~setUnicycleControllerFromString(handler'.controlType).ok
                       /\ setUnicycleControllerFromString(handler'.controlType)
                              .unicycleController = "unassigned"
                       /\ generator'.unicycleController = generator.unicycleController
                       /\ ret' = FALSE
                       /\ state' = "Initialized" => state = "Initialized" ]_vars

\* an initialize() has just failed on a planner never initialized before,
\* with a handler that lacks nothing but names an unknown control type
C29_Witness ==
    /\ op = "initialize"
    /\ ret = FALSE
    /\ handler \in Complete
    /\ handler.controlType = "other"
    /\ state = "NotInitialized"
    /\ generator.unicycleController = "unset"
    /\ generator.plan.kind = "none"

\* both contact frames are resolved: setRobotContactFrames, the only writer
\* of the two indices, found each of them in the model it was last given
FramesResolved ==
    /\ parameters.leftContactFrameIndex # FRAME_INVALID_INDEX
    /\ parameters.rightContactFrameIndex # FRAME_INVALID_INDEX

ContactPhaseListNow == ContactPhaseListOf(isOutputValid, LeftContacts, RightContacts)

\* C31: an advance() that fails leaves the result of getContactPhaseList()
\* as it was: the list built after it equals the list built before it.
C31_FailedAdvanceKeepsPhaseList ==
    [][ (op' = "advance" /\ ret' = FALSE)
            => ContactPhaseListNow' = ContactPhaseListNow ]_vars

\* C32: Output changes only in an advance() that returns true; initialize,
\* setInput, setRobotContactFrames, getOutput, isOutputValid and
\* getContactPhaseList leave every Output field alone, and a
\* setRobotContactFrames that returns true leaves the FSM state as it was.
C32_OnlyAdvanceWritesOutput ==
    [][ /\ (output' # output) => (op' = "advance" /\ ret' = TRUE)
        /\ (op' = "setRobotContactFrames" /\ ret' = TRUE) => state' = state ]_vars

\* setRobotContactFrames has just succeeded on a Running planner whose Output
\* holds a generated plan
C32_Witness ==
    /\ op = "setRobotContactFrames"
    /\ ret = TRUE
    /\ preState = "Running"
    /\ state = "Running"
    /\ output # DefaultOutput

----------------------------------------------------------------------------
(* The sequences advance() pulls from the generator at lines 619-620 and
   668-670, with sizes the generator chooses, and the elements advance()
   asks for in the loops of lines 638-664 and 673-679.  Indices start at 0,
   as in the code. *)

\* the longest sequence the generator returns here
MaxLength == 2

Sizes == 0..MaxLength

\* the planner once the re-plan is done: five sequences of any sizes
AccessInit ==
    /\ state = "NotInitialized"
    /\ output = DefaultOutput
    /\ input = DefaultInput
    /\ parameters = DefaultParameters
    /\ generator = DefaultGenerator
    /\ initTime = 0
    /\ mutex = "free"
    /\ advPc = "idle"
    /\ rdPc = "idle"
    /\ rdView = DefaultOutput
    /\ rdSeen = {}
    /\ op = "none"
    /\ ret = TRUE
    /\ trace = << >>
    /\ preState = "NotInitialized"
    /\ nInitialize = 0
    /\ phases = NoPhases
    /\ lipm = NoLipm
    /\ handler = NoHandler
    /\ replan = NoReplan
    /\ \E np \in Sizes, nv \in Sizes, hp \in Sizes, hv \in Sizes, ha \in Sizes :
          access = [ pc |-> "idle", i |-> 0, used |-> {},
                     dcmPosition |-> np, dcmVelocity |-> nv,
                     heightPosition |-> hp, heightVelocity |-> hv,
                     heightAcceleration |-> ha, comPosition |-> 0 ]
    /\ imuTest = NoImuTest
    /\ logger = NoLogger

\* an element asked of a sequence: which one, at which index, its size, and
\* whether the accessor checks the index (std::vector::at) or not (operator[])
Use(name, index, size, checked) ==
    [sequence |-> name, index |-> index, size |-> size, checked |-> checked]

\* lines 619-636: the DCM sequences are taken and the CoM trajectory is
\* resized to the size of the DCM position
resizeComTrajectory ==
    /\ access.pc = "idle"
    /\ access' = [access EXCEPT !.pc = "comTrajectory", !.i = 0,
                                !.comPosition = access.dcmPosition]
    /\ UNCHANGED << planner, threads, op, ret, trace, preState, nInitialize,
                    phases, lipm, handler, replan, imuTest, logger >>

\* lines 638-664, one iteration: position.at(i) and velocity.at(i) with
\* i < dcmTrajectory.position.size(); at() throws std::out_of_range when the
\* index is not below the size, and the exception leaves advance()
comTrajectoryAt ==
    /\ access.pc = "comTrajectory"
    /\ access.i < access.dcmPosition
    /\ access' = [access EXCEPT
          !.used = @ \cup { Use("dcmPosition", access.i, access.dcmPosition, TRUE),
                            Use("dcmVelocity", access.i, access.dcmVelocity, TRUE) },
          !.pc = IF access.i < access.dcmVelocity THEN "comTrajectory" ELSE "thrown",
          !.i = IF access.i < access.dcmVelocity THEN access.i + 1 ELSE access.i]
    /\ UNCHANGED << planner, threads, op, ret, trace, preState, nInitialize,
                    phases, lipm, handler, replan, imuTest, logger >>

\* lines 666-670: the loop is over, the height profiles are taken
getCoMHeightTrajectory ==
    /\ access.pc = "comTrajectory"
    /\ access.i = access.dcmPosition
    /\ access' = [access EXCEPT !.pc = "stack", !.i = 0]
    /\ UNCHANGED << planner, threads, op, ret, trace, preState, nInitialize,
                    phases, lipm, handler, replan, imuTest, logger >>

\* lines 673-679, one iteration: the three height profiles are indexed with
\* operator[] for i < comTrajectory.position.size().  An index that is not
\* below the size is undefined behaviour: the read gives whatever lies
\* behind the buffer and the loop goes on, or the process is stopped
stackAt ==
    /\ access.pc = "stack"
    /\ access.i < access.comPosition
    /\ LET within == /\ access.i < access.heightPosition
                     /\ access.i < access.heightVelocity
                     /\ access.i < access.heightAcceleration
       IN  \E next \in IF within THEN {"stack"} ELSE {"stack", "crashed"} :
              access' = [access EXCEPT
                 !.used = @ \cup
                    { Use("heightPosition", access.i, access.heightPosition, FALSE),
                      Use("heightVelocity", access.i, access.heightVelocity, FALSE),
                      Use("heightAcceleration", access.i,
                          access.heightAcceleration, FALSE) },
                 !.pc = next,
                 !.i = IF next = "stack" THEN access.i + 1 ELSE access.i]
    /\ UNCHANGED << planner, threads, op, ret, trace, preState, nInitialize,
                    phases, lipm, handler, replan, imuTest, logger >>

\* lines 681-686: merge points, state Running, return true
accessDone ==
    /\ access.pc = "stack"
    /\ access.i = access.comPosition
    /\ access' = [access EXCEPT !.pc = "done"]
    /\ UNCHANGED << planner, threads, op, ret, trace, preState, nInitialize,
                    phases, lipm, handler, replan, imuTest, logger >>

AccessNext ==
    \/ resizeComTrajectory
    \/ comTrajectoryAt
    \/ getCoMHeightTrajectory
    \/ stackAt
    \/ accessDone

AccessSpec == AccessInit /\ [][AccessNext]_vars

\* C33: whatever the sizes of the sequences the generator returned,
\* advance() reads no element past the end of the DCM velocity or of the
\* three CoM height profiles: an access that is not bounds-checked (a checked
\* one throws instead of reading) is made with an index below the size.
C33_NoReadPastTheEnd ==
    \A u \in access.used :
        (u.sequence \in {"dcmVelocity", "heightPosition", "heightVelocity",
                         "heightAcceleration"} /\ ~u.checked)
            => u.index < u.size

----------------------------------------------------------------------------
(* MasImuTest::MasImuData::setupOrientationSensors, lines 73-131 of
   MasImuTest.cpp: the search of the sensor mounted on the configured frame.
   The interface is the remote multipleanalogsensorsclient: its answers are
   inputs. *)

\* the largest number of orientation sensors the interface reports here
MaxSensors == 3

\* iterations of the search loop are counted up to this number
MaxIterations == 5

\* frame names: the configured one and another one
ImuFrameNames == {"imu_frame", "other_frame"}

\* the frame names of the sensors of an interface, by sensor index + 1
SensorNames == UNION { [1..n -> ImuFrameNames] : n \in 0..MaxSensors }

\* lines 73-105: "remote" was read (the ok of line 76 is true, or line 80
\* returned), the driver is open and viewed, m_sensorIndex = 0, found = false
SensorsInit ==
    /\ state = "NotInitialized"
    /\ output = DefaultOutput
    /\ input = DefaultInput
    /\ parameters = DefaultParameters
    /\ generator = DefaultGenerator
    /\ initTime = 0
    /\ mutex = "free"
    /\ advPc = "idle"
    /\ rdPc = "idle"
    /\ rdView = DefaultOutput
    /\ rdSeen = {}
    /\ op = "none"
    /\ ret = TRUE
    /\ trace = << >>
    /\ preState = "NotInitialized"
    /\ nInitialize = 0
    /\ phases = NoPhases
    /\ lipm = NoLipm
    /\ handler = NoHandler
    /\ replan = NoReplan
    /\ access = NoAccess
    /\ \E names \in SensorNames :
          imuTest = [ pc |-> "search", names |-> names,
                      m_frameName |-> "imu_frame", ok |-> TRUE,
                      m_sensorIndex |-> 0, found |-> FALSE,
                      iterations |-> 0, ret |-> FALSE ]
    /\ logger = NoLogger

\* getNrOfOrientationSensors()
getNrOfOrientationSensors == Len(imuTest.names)

\* lines 106-119, one iteration of the do-while.  The ok declared at line 108
\* lives in the body of the loop only: the ok of the condition at line 119 is
\* the one declared at line 76.  answer is what
\* getOrientationSensorFrameName returned; it can be true only for an index
\* the interface has.
searchIteration ==
    /\ imuTest.pc = "search"
    /\ \E answer \in IF imuTest.m_sensorIndex < getNrOfOrientationSensors
                     THEN BOOLEAN ELSE {FALSE} :
          LET found == IF answer
                       THEN imuTest.names[imuTest.m_sensorIndex + 1]
                                = imuTest.m_frameName
                       ELSE imuTest.found
              index == IF answer /\ ~found
                       THEN imuTest.m_sensorIndex + 1
                       ELSE imuTest.m_sensorIndex
              again == /\ imuTest.ok
                       /\ index < getNrOfOrientationSensors
                       /\ ~found
          IN  imuTest' = [imuTest EXCEPT
                 !.found = found,
                 !.m_sensorIndex = index,
                 !.iterations = IF @ < MaxIterations THEN @ + 1 ELSE @,
                 !.pc = IF again THEN "search" ELSE "searched"]
    /\ UNCHANGED << planner, threads, op, ret, trace, preState, nInitialize,
                    phases, lipm, handler, replan, access, logger >>

\* lines 121-130: false when nothing was found, true otherwise
searchReturn ==
    /\ imuTest.pc = "searched"
    /\ imuTest' = [imuTest EXCEPT !.pc = "returned", !.ret = imuTest.found]
    /\ UNCHANGED << planner, threads, op, ret, trace, preState, nInitialize,
                    phases, lipm, handler, replan, access, logger >>

SensorsNext ==
    \/ searchIteration
    \/ searchReturn

SensorsSpec == SensorsInit /\ [][SensorsNext]_vars

\* C34: setupOrientationSensors ends its search after at most
\* getNrOfOrientationSensors() iterations (one, when there is no sensor),
\* also when getOrientationSensorFrameName fails for an index, and returns
\* true only if it found a sensor mounted on the configured frame.
C34_SearchEnds ==
    /\ imuTest.iterations <= IF getNrOfOrientationSensors = 0
                             THEN 1 ELSE getNrOfOrientationSensors
    /\ (imuTest.pc = "returned" /\ imuTest.ret)
          => /\ imuTest.m_sensorIndex < getNrOfOrientationSensors
             /\ imuTest.names[imuTest.m_sensorIndex + 1] = imuTest.m_frameName

----------------------------------------------------------------------------
(* MasImuTest::MasImuData::getFeedback, lines 179-229 of MasImuTest.cpp.
   The answers of the encoders and of the orientation sensor are inputs of
   each attempt. *)

\* line 181
maxAttempts == 100

\* yarp::dev::MAS_status, as far as line 195 tells the values apart
MAS_status == {"MAS_OK", "MAS_ERROR"}

\* lines 181-185; okAt and askedAgain record, for each reading, the attempts
\* at which it succeeded and whether it was requested after it had succeeded
FeedbackInit ==
    /\ state = "NotInitialized"
    /\ output = DefaultOutput
    /\ input = DefaultInput
    /\ parameters = DefaultParameters
    /\ generator = DefaultGenerator
    /\ initTime = 0
    /\ mutex = "free"
    /\ advPc = "idle"
    /\ rdPc = "idle"
    /\ rdView = DefaultOutput
    /\ rdSeen = {}
    /\ op = "none"
    /\ ret = TRUE
    /\ trace = << >>
    /\ preState = "NotInitialized"
    /\ nInitialize = 0
    /\ phases = NoPhases
    /\ lipm = NoLipm
    /\ handler = NoHandler
    /\ replan = NoReplan
    /\ access = NoAccess
    /\ imuTest = [ pc |-> "attempt", attempt |-> 0,
                   okEncoders |-> FALSE, okIMU |-> FALSE, ret |-> FALSE,
                   okAt |-> [encoders |-> {}, imu |-> {}],
                   askedAgain |-> FALSE ]
    /\ logger = NoLogger

\* mutant: each reading is requested at every attempt
Asks_Always(okSoFar) == TRUE

\* lines 189 and 192: a reading is requested when it has not succeeded yet
Asks(okSoFar) == ~okSoFar

\* lines 187-219, one iteration of the do-while
feedbackAttempt ==
    /\ imuTest.pc = "attempt"
    /\ \E encoders \in BOOLEAN, status \in MAS_status, measure \in BOOLEAN :
          LET askEncoders == Asks(imuTest.okEncoders)
              askIMU == Asks(imuTest.okIMU)
              okEncoders == IF askEncoders THEN encoders ELSE imuTest.okEncoders
              okIMU == IF askIMU
                       THEN IF status = "MAS_OK" THEN measure ELSE imuTest.okIMU
                       ELSE imuTest.okIMU
              both == okEncoders /\ okIMU
              attempt == IF both THEN imuTest.attempt ELSE imuTest.attempt + 1
          IN  imuTest' = [imuTest EXCEPT
                 !.okEncoders = okEncoders,
                 !.okIMU = okIMU,
                 !.attempt = attempt,
                 !.okAt = [ encoders |-> IF askEncoders /\ encoders
                                         THEN @.encoders \cup {imuTest.attempt}
                                         ELSE @.encoders,
                            imu |-> IF askIMU /\ status = "MAS_OK" /\ measure
                                    THEN @.imu \cup {imuTest.attempt}
                                    ELSE @.imu ],
                 !.askedAgain = \/ @
                                \/ askEncoders /\ imuTest.okAt.encoders # {}
                                \/ askIMU /\ imuTest.okAt.imu # {},
                 !.ret = both,
                 !.pc = IF both THEN "returned"
                        ELSE IF attempt < maxAttempts THEN "attempt"
                        ELSE "failed"]
    /\ UNCHANGED << planner, threads, op, ret, trace, preState, nInitialize,
                    phases, lipm, handler, replan, access, logger >>

\* lines 221-228: the failed readings are reported, false is returned
feedbackFailed ==
    /\ imuTest.pc = "failed"
    /\ imuTest' = [imuTest EXCEPT !.pc = "returned", !.ret = FALSE]
    /\ UNCHANGED << planner, threads, op, ret, trace, preState, nInitialize,
                    phases, lipm, handler, replan, access, logger >>

FeedbackNext ==
    \/ feedbackAttempt
    \/ feedbackFailed

\* the thread calling getFeedback keeps running
FeedbackSpec == FeedbackInit /\ [][FeedbackNext]_vars /\ WF_vars(FeedbackNext)

\* C36: getFeedback makes at most 100 attempts and then returns; it returns
\* true exactly when the encoders were read with success at some attempt and
\* the IMU was read with success at some attempt, the same or another one;
\* a reading that has succeeded is not requested again.
C36_FeedbackWithinAttempts ==
    /\ [](/\ imuTest.attempt <= maxAttempts
          /\ imuTest.pc = "attempt" => imuTest.attempt < maxAttempts
          /\ imuTest.pc = "returned" =>
                (imuTest.ret <=> (imuTest.okAt.encoders # {} /\ imuTest.okAt.imu # {}))
          /\ ~imuTest.askedAgain)
    /\ <>(imuTest.pc = "returned")

\* true was returned at the third attempt, for encoders read at the first
\* attempt and an IMU read at the third
C36_Witness ==
    /\ imuTest.pc = "returned"
    /\ imuTest.ret
    /\ imuTest.okAt = [encoders |-> {0}, imu |-> {2}]

----------------------------------------------------------------------------
(* The MasImuTest module, lines 325-542 of MasImuTest.cpp: configure,
   startTest, stopTest and updateModule each take m_mutex in their first
   line and hold it to their return, so each is a step that takes the mutex
   and a step that does the rest.  The outcomes of the drivers
   (configuration readable, feedback available) are inputs. *)

\* MasImuTest::State: the three enumerators this file names, and "STARTED"
\* for the value m_state holds before configure() has assigned it
ImuStates == {"STARTED", "PREPARED", "FIRST_RUN", "RUNNING"}

\* a MasImuData as constructed: nothing collected, no rotation computed
NewImuData ==
    [ m_data |-> << >>, m_rotationFeedback |-> "unset",
      m_rotationFromEncoders |-> "unset", m_imuWorld |-> "unset" ]

\* what can happen in setImuWorld: getFeedback fails, or
\* updateRotationFromEncoders fails, or both succeed
Outcomes == {"noFeedback", "noRotation", "ok"}

\* the module as constructed
ImuInit ==
    /\ state = "NotInitialized"
    /\ output = DefaultOutput
    /\ input = DefaultInput
    /\ parameters = DefaultParameters
    /\ generator = DefaultGenerator
    /\ initTime = 0
    /\ mutex = "free"
    /\ advPc = "idle"
    /\ rdPc = "idle"
    /\ rdView = DefaultOutput
    /\ rdSeen = {}
    /\ op = "none"
    /\ ret = TRUE
    /\ trace = << >>
    /\ preState = "NotInitialized"
    /\ nInitialize = 0
    /\ phases = NoPhases
    /\ lipm = NoLipm
    /\ handler = NoHandler
    /\ replan = NoReplan
    /\ access = NoAccess
    /\ imuTest = [ pc |-> "module", m_state |-> "STARTED", m_mutex |-> "free",
                   m_leftIMU |-> NewImuData, m_rightIMU |-> NewImuData,
                   call |-> "none", ret |-> TRUE, setImuWorld |-> << >> ]
    /\ logger = NoLogger

\* a call of the module has returned val; worlds are the results of the
\* setImuWorld calls it made, in order
ImuCalled(name, val, worlds, module) ==
    imuTest' = [module EXCEPT !.call = name, !.ret = val, !.setImuWorld = worlds,
                              !.m_mutex = "free"]

\* the calls that take m_mutex
ImuCalls == {"configure", "startTest", "stopTest", "updateModule"}

\* lines 340, 371, 526, 540: std::lock_guard<std::mutex> lock(m_mutex)
imuLock(name) ==
    /\ imuTest.call = "none"
    /\ imuTest.m_mutex = "free"
    /\ imuTest' = [imuTest EXCEPT !.m_mutex = name]
    /\ UNCHANGED << planner, threads, op, ret, trace, preState, nInitialize,
                    phases, lipm, handler, replan, access, logger >>

\* the caller goes on
imuReturn ==
    /\ imuTest.call # "none"
    /\ imuTest' = [imuTest EXCEPT !.call = "none", !.ret = TRUE,
                                  !.setImuWorld = << >>]
    /\ UNCHANGED << planner, threads, op, ret, trace, preState, nInitialize,
                    phases, lipm, handler, replan, access, logger >>

\* lines 304-307
MasImuDataReset(imu) == [imu EXCEPT !.m_data = << >>]

\* lines 325-330
ImuReset(module) ==
    [module EXCEPT !.m_state = "PREPARED",
                   !.m_leftIMU = MasImuDataReset(@),
                   !.m_rightIMU = MasImuDataReset(@)]

\* lines 289-302: getFeedback (which assigns m_rotationFeedback, line 209),
\* then updateRotationFromEncoders (m_rotationFromEncoders, line 251), then
\* m_imuWorld; the first failure returns false
setImuWorld(imu, outcome) ==
    IF outcome = "noFeedback" THEN [ok |-> FALSE, imu |-> imu]
    ELSE IF outcome = "noRotation"
    THEN [ok |-> FALSE, imu |-> [imu EXCEPT !.m_rotationFeedback = "set"]]
    ELSE [ok |-> TRUE,
          imu |-> [imu EXCEPT !.m_rotationFeedback = "set",
                              !.m_rotationFromEncoders = "set",
                              !.m_imuWorld = "set"]]

\* lines 369-504: m_state becomes PREPARED at the last line, when nothing
\* failed before
imuConfigure(ok) ==
    /\ imuTest.m_mutex = "configure"
    /\ ImuCalled("configure", ok, << >>,
                 IF ok THEN [imuTest EXCEPT !.m_state = "PREPARED"] ELSE imuTest)
    /\ UNCHANGED << planner, threads, op, ret, trace, preState, nInitialize,
                    phases, lipm, handler, replan, access, logger >>

\* lines 524-536
startTest ==
    /\ imuTest.m_mutex = "startTest"
    /\ IF imuTest.m_state = "PREPARED"
       THEN ImuCalled("startTest", TRUE, << >>,
                      [ImuReset(imuTest) EXCEPT !.m_state = "FIRST_RUN"])
       ELSE ImuCalled("startTest", FALSE, << >>, imuTest)
    /\ UNCHANGED << planner, threads, op, ret, trace, preState, nInitialize,
                    phases, lipm, handler, replan, access, logger >>

\* lines 538-542
stopTest ==
    /\ imuTest.m_mutex = "stopTest"
    /\ ImuCalled("stopTest", TRUE, << >>, [imuTest EXCEPT !.m_state = "PREPARED"])
    /\ UNCHANGED << planner, threads, op, ret, trace, preState, nInitialize,
                    phases, lipm, handler, replan, access, logger >>

\* mutant: the result of the right IMU is not looked at
updateModule_IgnoresRight(left, right) ==
    /\ imuTest.m_mutex = "updateModule"
    /\ LET l == setImuWorld(imuTest.m_leftIMU, left)
           r == setImuWorld(imuTest.m_rightIMU, right)
       IN  IF imuTest.m_state # "FIRST_RUN"
           THEN /\ left = "ok" /\ right = "ok"
                /\ ImuCalled("updateModule", TRUE, << >>, imuTest)
           ELSE IF ~l.ok
           THEN /\ right = "ok"
                /\ ImuCalled("updateModule", FALSE, << l.ok >>,
                             [imuTest EXCEPT !.m_leftIMU = l.imu])
           ELSE ImuCalled("updateModule", TRUE, << l.ok, r.ok >>,
                   [imuTest EXCEPT !.m_leftIMU = l.imu, !.m_rightIMU = r.imu,
                                   !.m_state = "RUNNING"])
    /\ UNCHANGED << planner, threads, op, ret, trace, preState, nInitialize,
                    phases, lipm, handler, replan, access, logger >>

\* lines 338-367; left and right say what happens in setImuWorld on each IMU
\* (nothing is asked of them when it is not called)
updateModule(left, right) ==
    /\ imuTest.m_mutex = "updateModule"
    /\ LET l == setImuWorld(imuTest.m_leftIMU, left)
           r == setImuWorld(imuTest.m_rightIMU, right)
       IN  IF imuTest.m_state # "FIRST_RUN"
           THEN /\ left = "ok" /\ right = "ok"
                /\ ImuCalled("updateModule", TRUE, << >>, imuTest)
           ELSE IF ~l.ok
           THEN /\ right = "ok"
                /\ ImuCalled("updateModule", FALSE, << l.ok >>,
                             [imuTest EXCEPT !.m_leftIMU = l.imu])
           ELSE IF ~r.ok
           THEN ImuCalled("updateModule", FALSE, << l.ok, r.ok >>,
                   [imuTest EXCEPT !.m_leftIMU = l.imu, !.m_rightIMU = r.imu])
           ELSE ImuCalled("updateModule", TRUE, << l.ok, r.ok >>,
                   [imuTest EXCEPT !.m_leftIMU = l.imu, !.m_rightIMU = r.imu,
                                   !.m_state = "RUNNING"])
    /\ UNCHANGED << planner, threads, op, ret, trace, preState, nInitialize,
                    phases, lipm, handler, replan, access, logger >>

ImuNext ==
    \/ \E name \in ImuCalls : imuLock(name)
    \/ \E ok \in BOOLEAN : imuConfigure(ok)
    \/ startTest
    \/ stopTest
    \/ \E left \in Outcomes, right \in Outcomes : updateModule(left, right)
    \/ imuReturn

ImuSpec == ImuInit /\ [][ImuNext]_vars

\* what the module holds apart from the record of the last call
ImuModule == << imuTest.m_state, imuTest.m_leftIMU, imuTest.m_rightIMU >>

\* the step in which the call name returns
Returns(name) == imuTest.m_mutex = name /\ imuTest'.call = name

\* C35: startTest() returns true only in state PREPARED, and then the data
\* of both IMUs is empty and the state is FIRST_RUN; in any other state it
\* returns false and changes nothing.  updateModule() in FIRST_RUN goes to
\* RUNNING only when setImuWorld succeeded on the left and on the right IMU,
\* and otherwise returns false in FIRST_RUN.  stopTest() sets PREPARED.
C35_TestStateMachine ==
    [][ /\ Returns("startTest") =>
              IF imuTest.m_state = "PREPARED"
              THEN /\ imuTest'.ret
                   /\ imuTest'.m_state = "FIRST_RUN"
                   /\ imuTest'.m_leftIMU.m_data = << >>
                   /\ imuTest'.m_rightIMU.m_data = << >>
              ELSE /\ ~imuTest'.ret
                   /\ ImuModule' = ImuModule
        /\ (Returns("updateModule") /\ imuTest.m_state = "FIRST_RUN") =>
              IF imuTest'.setImuWorld = << TRUE, TRUE >>
              THEN imuTest'.ret /\ imuTest'.m_state = "RUNNING"
              ELSE ~imuTest'.ret /\ imuTest'.m_state = "FIRST_RUN"
        /\ (imuTest'.m_state = "RUNNING" /\ imuTest.m_state # "RUNNING") =>
              /\ Returns("updateModule")
              /\ imuTest.m_state = "FIRST_RUN"
        /\ Returns("stopTest") => imuTest'.m_state = "PREPARED" ]_vars

\* updateModule has just failed on the right IMU after the left IMU world
\* was set, and the test is still in its first run
C35_Witness ==
    /\ imuTest.call = "updateModule"
    /\ imuTest.setImuWorld = << TRUE, FALSE >>
    /\ ~imuTest.ret
    /\ imuTest.m_state = "FIRST_RUN"
    /\ imuTest.m_leftIMU.m_imuWorld = "set"

----------------------------------------------------------------------------
(* FTIMULoggerDevice, FTIMULoggerDevice.cpp: the device thread calling
   attachAll, detachAll and close, and the periodic thread calling run().
   The answers of the sensor bridge are inputs. *)

\* run() is called at most this many times
MaxRuns == 2

\* the FT/IMU pairs of lines 56-59, in the order run() fills them
PairNames == << "l_leg", "l_foot", "r_leg", "r_foot" >>

\* the members of an FTIMUPair, in the order run() reads them
Channels == << "ft", "acc", "gyro", "orient" >>

\* the logged buffers: the members of the four pairs and of the base IMU,
\* the two joint-state matrices and the time vector
Buffers ==
    { << PairNames[i], Channels[j] >> : i \in 1..4, j \in 1..4 }
        \cup { << "root_link_imu", c >> : c \in {"acc", "gyro", "orient"} }
        \cup { << "joint_state", "joint_positions" >>,
               << "joint_state", "joint_velocities" >>, << "time", "time" >> }

\* the reads run() asks of the sensor bridge are numbered in the order of
\* lines 122-193: four for each pair, one for the base IMU, two for the joints
NumberOfReads == 19

\* the read whose result is written to a buffer (the time is written by
\* every read)
ReadOf(b) ==
    IF b[1] = "root_link_imu" THEN 17
    ELSE IF b = << "joint_state", "joint_positions" >> THEN 18
    ELSE IF b = << "joint_state", "joint_velocities" >> THEN 19
    ELSE IF b[1] = "time" THEN 1
    ELSE LET i == CHOOSE k \in 1..4 : PairNames[k] = b[1]
             j == CHOOSE k \in 1..4 : Channels[k] = b[2]
         IN  (i - 1) * 4 + j

\* ok = ok && read(...): a read is made, and succeeds, when no read before
\* it failed and it does not fail itself; failing is the number of the first
\* read that fails, 0 when none does
Succeeded(read, failing) == failing = 0 \/ read < failing

\* what a row holds: the measurement read in this run, or what the variable
\* (ft, acc, gyro, orient, analogSensorBuffer, jointsPos, jointsVel, timeNow)
\* held before
RowOf(b, failing) == IF Succeeded(ReadOf(b), failing) THEN "read" ELSE "kept"

\* Eigen conservativeResize(rows, ...): the first rows are kept, rows added
\* hold no value yet
conservativeResize(buffer, rows) ==
    IF rows <= Len(buffer) THEN SubSeq(buffer, 1, rows)
    ELSE buffer \o [k \in 1..(rows - Len(buffer)) |-> "uninitialized"]

\* buffer.row(index) << value, with rows counted from 0
SetRow(buffer, index, value) == [buffer EXCEPT ![index + 1] = value]

\* the device after open() returned true (lines 34-62): the maps hold empty
\* matrices, the periodic thread is not started
LoggerInit ==
    /\ state = "NotInitialized"
    /\ output = DefaultOutput
    /\ input = DefaultInput
    /\ parameters = DefaultParameters
    /\ generator = DefaultGenerator
    /\ initTime = 0
    /\ mutex = "free"
    /\ advPc = "idle"
    /\ rdPc = "idle"
    /\ rdView = DefaultOutput
    /\ rdSeen = {}
    /\ op = "none"
    /\ ret = TRUE
    /\ trace = << >>
    /\ preState = "NotInitialized"
    /\ nInitialize = 0
    /\ phases = NoPhases
    /\ lipm = NoLipm
    /\ handler = NoHandler
    /\ replan = NoReplan
    /\ access = NoAccess
    /\ imuTest = NoImuTest
    /\ logger = [ pc |-> "opened", thread |-> "stopped", runPc |-> "idle",
                  bufferSize |-> 0, buffers |-> [b \in Buffers |-> << >>],
                  runs |-> 0, failing |-> 0,
                  m_deviceMutex |-> "free", logData |-> "none",
                  call |-> "none" ]

\* lines 87-108: the drivers are attached, the joints listed and the
\* periodic thread started, or false is returned before start()
attachAll(ok) ==
    /\ logger.pc \in {"opened", "idle"}
    /\ logger' = [logger EXCEPT !.thread = IF ok THEN "running" ELSE @,
                                !.pc = "idle", !.call = "attachAll"]
    /\ UNCHANGED << planner, threads, op, ret, trace, preState, nInitialize,
                    phases, lipm, handler, replan, access, imuTest >>

\* lines 111-119: the bridge is advanced and the number of rows of time taken
runBegin ==
    /\ logger.thread = "running"
    /\ logger.runPc = "idle"
    /\ logger.runs < MaxRuns
    /\ logger' = [logger EXCEPT !.runPc = "run",
                                !.bufferSize = Len(logger.buffers[<< "time", "time" >>])]
    /\ UNCHANGED << planner, threads, op, ret, trace, preState, nInitialize,
                    phases, lipm, handler, replan, access, imuTest >>

\* mutant: a row is added only to the buffers whose read succeeded
runEnd_OnlyWhenRead(failing) ==
    /\ logger.runPc = "run"
    /\ logger' = [logger EXCEPT
          !.buffers = [b \in Buffers |->
                          IF Succeeded(ReadOf(b), failing)
                          THEN SetRow(conservativeResize(logger.buffers[b],
                                                         logger.bufferSize + 1),
                                      logger.bufferSize, RowOf(b, failing))
                          ELSE logger.buffers[b]],
          !.runPc = "idle",
          !.runs = @ + 1,
          !.failing = failing]
    /\ UNCHANGED << planner, threads, op, ret, trace, preState, nInitialize,
                    phases, lipm, handler, replan, access, imuTest >>

\* lines 121-206: each buffer is resized to bufferSize + 1 rows and its row
\* bufferSize is written, after the reads, whatever they returned
runEnd(failing) ==
    /\ logger.runPc = "run"
    /\ logger' = [logger EXCEPT
          !.buffers = [b \in Buffers |->
                          SetRow(conservativeResize(logger.buffers[b],
                                                    logger.bufferSize + 1),
                                 logger.bufferSize, RowOf(b, failing))],
          !.runPc = "idle",
          !.runs = @ + 1,
          !.failing = failing]
    /\ UNCHANGED << planner, threads, op, ret, trace, preState, nInitialize,
                    phases, lipm, handler, replan, access, imuTest >>

\* lines 306 and 318: std::lock_guard<std::mutex> guard(m_deviceMutex); close
\* goes on to logData(), which starts reading the buffers (lines 211-284)
deviceLock(name) ==
    /\ logger.pc \in {"opened", "idle"}
    /\ logger.m_deviceMutex = "free"
    /\ logger' = [logger EXCEPT !.m_deviceMutex = name, !.pc = name,
                                !.logData = IF name = "close" THEN "reading" ELSE @]
    /\ UNCHANGED << planner, threads, op, ret, trace, preState, nInitialize,
                    phases, lipm, handler, replan, access, imuTest >>

\* lines 307-312: stop() returns when the periodic thread has left run()
detachAll ==
    /\ logger.pc = "detachAll"
    /\ logger.runPc = "idle"
    /\ logger' = [logger EXCEPT !.thread = "stopped", !.m_deviceMutex = "free",
                                !.pc = "idle", !.call = "detachAll"]
    /\ UNCHANGED << planner, threads, op, ret, trace, preState, nInitialize,
                    phases, lipm, handler, replan, access, imuTest >>

\* lines 286-301 and 319-324: the file is written, close returns true
close ==
    /\ logger.pc = "close"
    /\ logger' = [logger EXCEPT !.logData = "written", !.m_deviceMutex = "free",
                                !.pc = "idle", !.call = "close"]
    /\ UNCHANGED << planner, threads, op, ret, trace, preState, nInitialize,
                    phases, lipm, handler, replan, access, imuTest >>

LoggerNext ==
    \/ \E ok \in BOOLEAN : attachAll(ok)
    \/ runBegin
    \/ \E failing \in 0..NumberOfReads : runEnd(failing)
    \/ \E name \in {"detachAll", "close"} : deviceLock(name)
    \/ detachAll
    \/ close

LoggerSpec == LoggerInit /\ [][LoggerNext]_vars

\* the number of rows of a logged buffer
Rows(b) == Len(logger.buffers[b])

\* C37: every run() adds exactly one row to each logged buffer, whether its
\* reads succeeded or not, and all buffers have as many rows as time.
C37_OneRowPerRun ==
    /\ [](\A b \in Buffers : Rows(b) = Rows(<< "time", "time" >>))
    /\ [][ (logger.runPc = "run" /\ logger'.runPc = "idle")
              => \A b \in Buffers : Rows(b)' = Rows(b) + 1 ]_vars

\* two runs are over, the second with a failed read of the left leg
\* accelerometer: each buffer has two rows
C37_Witness ==
    /\ logger.runs = 2
    /\ logger.runPc = "idle"
    /\ logger.failing = 2
    /\ \A b \in Buffers : Rows(b) = 2
    /\ logger.buffers[<< "r_foot", "gyro" >>][2] = "kept"

\* C38: in whatever order attachAll, detachAll and close are called, logData
\* is not reading the logged buffers while the periodic thread is inside
\* run(), resizing and writing them.
C38_NoReadWhileRunWrites ==
    ~(logger.logData = "reading" /\ logger.runPc = "run")
====
